---- MODULE Spec2Model ----
(***************************************************************************)
(* Signaling relay and peer-connection orchestration of the classroom      *)
(* system: the server's session registry (server/state/inMemory.ts,        *)
(* server/sessions/join.ts), its send registry and signaling router        *)
(* (server/ws/registry.ts, server/ws/signaling.ts), and the client's       *)
(* per-peer connection orchestrators (client/src/audio/webrtc.ts).         *)
(***************************************************************************)
EXTENDS Integers, Sequences, FiniteSets, Bags, TLC

(***************************************************************************)
(* Bounds of the model.                                                    *)
(***************************************************************************)
NumConns == 2            \* connections of the registry specification
NumSessions == 1         \* session ids of the registry specification
NumPeers == 2            \* connections of the router specification

ConnNames == <<"c1", "c2", "c3", "c4", "c5">>
SessionNames == <<"abc123", "s2", "s3", "s4">>

Conns == {ConnNames[i] : i \in 1..NumConns}
SessionIds == {SessionNames[i] : i \in 1..NumSessions}
Peers == {ConnNames[i] : i \in 1..NumPeers}
RouterSessions == {SessionNames[1]}                   \* the session of the router and replay specifications
SessionPair == {SessionNames[1], SessionNames[2]}     \* two sessions side by side

\* teacher: string | null; an absent optional argument; a missing map entry
NoConn == "null"
NoSession == "undefined"
Roles == {"teacher", "student"}

NoField == "undefined"   \* a field the object does not have

VARIABLES
    sessions,          \* inMemory.ts: const sessions: Map<string, InternalSession>
    socketToSession,   \* join.ts: const socketToSession: Map<string, string>
    sockets,           \* registry.ts: const sockets: Map<string, WebSocket>, with each handle's state
    patches,           \* late-join cache: the board patches of each session, in arrival order
    lastAvatar,        \* late-join cache: the latest pose of each session
    lastPhoto,         \* late-join cache: the latest photo of each session
    lastLandmarks,     \* late-join cache: the latest landmark set of each session
    lastOp,            \* the operation that ran last, its inputs and what it returned
    tried,             \* the messages the last operation passed to sendTo, per target, in order
    rtc,               \* webrtc.ts: every connection createPC has made, with its closure's state
    pcs,               \* TeacherAudioManager.pcs: target -> its entry (an index of rtc, 0 for none)
    pcEntry,           \* StudentAudioManager.pcEntry: its entry (an index of rtc, 0 for undefined)
    localStream,       \* TeacherAudioManager.localStream
    tasks,             \* the async calls that are suspended at an await
    arrived,           \* the candidates handleIce was called with so far, in order
    calls,             \* how many calls of each kind the environment has made
    outbox,            \* what each client handed to sendMessage and the server has not read
    inbox,             \* what the server sent to each connection and the client has not read
    handled,           \* the payloads the server's handle has been called with, in order
    pending,           \* server.ts: the sockets whose connection handler is suspended at its await
    socket,            \* socket.ts: the readyState of the transport client's socket
    reconnectAttempts, \* socket.ts: let reconnectAttempts
    timer,             \* socket.ts: the delay of the pending setTimeout of reconnect, 0 for none
    history            \* the delays reconnect has scheduled, with a 0 for every open, in order

regVars == <<sessions, socketToSession>>
cacheVars == <<patches, lastAvatar, lastPhoto, lastLandmarks>>
serverVars == <<sessions, socketToSession, sockets, patches, lastAvatar, lastPhoto,
                lastLandmarks, lastOp, tried>>
clientVars == <<rtc, pcs, pcEntry, localStream, tasks, arrived, calls>>
wireVars == <<outbox, inbox, handled>>
transportVars == <<socket, reconnectAttempts, timer, history>>
linkVars == <<pending, transportVars>>

(***************************************************************************)
(* server/state/inMemory.ts                                                *)
(***************************************************************************)
EmptySession == [teacher |-> NoConn, students |-> {}]

SessionOrNew(ss, sessionId) ==
    IF sessionId \in DOMAIN ss THEN ss[sessionId] ELSE EmptySession

PutSession(ss, sessionId, s) ==
    [x \in DOMAIN ss \cup {sessionId} |-> IF x = sessionId THEN s ELSE ss[x]]

createSession(ss, sessionId, teacherSocketId) ==
    LET s == SessionOrNew(ss, sessionId)
    IN  PutSession(ss, sessionId,
            IF teacherSocketId # NoConn
            THEN [teacher |-> teacherSocketId,
                  students |-> s.students \ {teacherSocketId}]
            ELSE s)

\* joinSession without line 55: the new teacher stays in the student set
joinSession_keepsStudent(ss, sessionId, socketId, role) ==
    LET s == SessionOrNew(ss, sessionId)
    IN  PutSession(ss, sessionId,
            IF role = "teacher"
            THEN [s EXCEPT !.teacher = socketId]
            ELSE IF s.teacher # socketId
                 THEN [s EXCEPT !.students = @ \cup {socketId}]
                 ELSE s)

joinSession(ss, sessionId, socketId, role) ==
    LET s == SessionOrNew(ss, sessionId)
    IN  PutSession(ss, sessionId,
            IF role = "teacher"
            THEN [teacher |-> socketId, students |-> s.students \ {socketId}]
            ELSE IF s.teacher # socketId
                 THEN [s EXCEPT !.students = @ \cup {socketId}]
                 ELSE s)

\* one iteration of removeSocket's loop: the session with socketId cleared
SessionWithout(s, socketId) ==
    [teacher |-> IF s.teacher = socketId THEN NoConn ELSE s.teacher,
     students |-> s.students \ {socketId}]

SessionChanged(s, socketId) ==
    s.teacher = socketId \/ socketId \in s.students

IsEmptySession(s) == s.teacher = NoConn /\ s.students = {}

\* removeSocket with line 85 testing the teacher slot only: a session whose
\* teacher left is deleted although students remain
removeSocketState_teacherOnly(ss, socketId) ==
    LET changed == {id \in DOMAIN ss : SessionChanged(ss[id], socketId)}
        removed == {id \in changed : SessionWithout(ss[id], socketId).teacher = NoConn}
    IN  [sessions |-> [id \in DOMAIN ss \ removed |->
                          IF id \in changed
                          THEN SessionWithout(ss[id], socketId)
                          ELSE ss[id]],
         removedSessions |-> removed,
         updatedSessions |-> changed \ removed]

removeSocketState(ss, socketId) ==
    LET changed == {id \in DOMAIN ss : SessionChanged(ss[id], socketId)}
        removed == {id \in changed : IsEmptySession(SessionWithout(ss[id], socketId))}
    IN  [sessions |-> [id \in DOMAIN ss \ removed |->
                          IF id \in changed
                          THEN SessionWithout(ss[id], socketId)
                          ELSE ss[id]],
         removedSessions |-> removed,
         updatedSessions |-> changed \ removed]

\* getSession(sessionId) returns undefined for a session that is not in the map
getSessionFound(ss, sessionId) == sessionId \in DOMAIN ss

getSession(ss, sessionId) == ss[sessionId]

(***************************************************************************)
(* server/sessions/join.ts                                                 *)
(***************************************************************************)
joinThrows(ss, sessionId, socketId) ==
    \/ sessionId = ""
    \/ socketId = ""
    \/ ~getSessionFound(ss, sessionId)

join(ss, s2s, sessionId, socketId, role) ==
    LET current == s2s[socketId]
        ss1 == IF current # NoSession /\ current # sessionId
               THEN removeSocketState(ss, socketId).sessions
               ELSE ss
    IN  [sessions |-> joinSession(ss1, sessionId, socketId, role),
         socketToSession |-> [s2s EXCEPT ![socketId] = sessionId]]

getSessionForSocket(s2s, socketId) == s2s[socketId]

\* removeSocket without line 186: the binding stays
removeSocket_keepsBinding(ss, s2s, socketId) ==
    LET r == removeSocketState(ss, socketId)
    IN  [sessions |-> r.sessions,
         socketToSession |-> s2s,
         removedSessions |-> r.removedSessions,
         updatedSessions |-> r.updatedSessions]

removeSocket(ss, s2s, socketId) ==
    LET r == removeSocketState(ss, socketId)
    IN  [sessions |-> r.sessions,
         socketToSession |-> [s2s EXCEPT ![socketId] = NoSession],
         removedSessions |-> r.removedSessions,
         updatedSessions |-> r.updatedSessions]

(***************************************************************************)
(* server/ws/registry.ts                                                   *)
(*                                                                         *)
(* A handle is "none" (not in the map), "open" (readyState 1), "closed"    *)
(* (in the map, readyState not 1: the close event has not run yet) or      *)
(* "throws" (readyState 1 and ws.send throws).                             *)
(***************************************************************************)
SocketStates == {"none", "open", "closed", "throws"}

register(socks, socketId) == [socks EXCEPT ![socketId] = "open"]

unregister(socks, socketId) == [socks EXCEPT ![socketId] = "none"]

\* safeSend hands the message to the handle only when readyState is 1; it
\* catches what ws.send throws
safeSendDelivers(state) == state = "open"

\* what sendTo returns
sendTo(socks, socketId) == socks[socketId] # "none"

(***************************************************************************)
(* Messages.  An envelope is {channel, payload, from}; a payload keeps the *)
(* fields the router reads or writes, and NoField for a field it lacks.    *)
(***************************************************************************)
NoPayload == [type |-> NoField, body |-> NoField, recipient |-> NoField,
              targetSocketId |-> NoField, from |-> NoField, role |-> NoField,
              sessionId |-> NoField]

Envelope(channel, payload, from) ==
    [channel |-> channel, payload |-> payload, from |-> from]

\* the connections and the session ids of the specification being checked
AllConns == DOMAIN sockets
AllSessionIds == DOMAIN patches

NoSends == [c \in AllConns |-> << >>]

\* registry.sendTo(socketId, message), recorded
SendTo(t, socketId, message) == [t EXCEPT ![socketId] = Append(@, message)]

\* registry.sendMany(socketIds, message)
sendMany(t, socketIds, message) ==
    [c \in DOMAIN t |-> IF c \in socketIds THEN Append(t[c], message) ELSE t[c]]

\* the messages that reached connection c's handle during the last operation
Delivered(c) == IF safeSendDelivers(sockets[c]) THEN tried[c] ELSE << >>

(***************************************************************************)
(* The late-join cache: getPatches, getLastAvatar, getLastPhoto,           *)
(* getLastLandmarks, and the board and avatar producers that fill it.      *)
(***************************************************************************)
MaxPatches == 2   \* patches the cache of a session holds

PatchIds == {"patch1", "patch2"}

PatchEnvelopes(ps, from) ==
    [i \in 1..Len(ps) |->
        Envelope("/board", [NoPayload EXCEPT !.type = "patch", !.body = ps[i]], from)]

ItemEnvelope(item, type, from) ==
    IF item = NoField THEN << >>
    ELSE << Envelope("/avatar", [NoPayload EXCEPT !.type = type, !.body = item], from) >>

\* the replay with the photo step before the pose step
Replay_photoFirst(sid, from) ==
    PatchEnvelopes(patches[sid], from)
        \o ItemEnvelope(lastPhoto[sid], "photo", from)
        \o ItemEnvelope(lastAvatar[sid], "pose", from)
        \o ItemEnvelope(lastLandmarks[sid], "landmarks", from)

\* the four replay steps of handleJoin and handleRequestState, in their order
Replay(sid, from) ==
    PatchEnvelopes(patches[sid], from)
        \o ItemEnvelope(lastAvatar[sid], "pose", from)
        \o ItemEnvelope(lastPhoto[sid], "photo", from)
        \o ItemEnvelope(lastLandmarks[sid], "landmarks", from)

(***************************************************************************)
(* server/ws/signaling.ts                                                  *)
(***************************************************************************)
\* lastOp: "before" is the registry as a registry operation found it
NoBefore == [sessions |-> << >>]

Before == [sessions |-> sessions]

NoOp == [op |-> "init", socketId |-> NoConn, sessionId |-> NoSession,
         role |-> "none", threw |-> FALSE, dropped |-> FALSE,
         removedSessions |-> {}, updatedSessions |-> {}, payload |-> NoPayload,
         before |-> NoBefore, returned |-> FALSE]

\* handle, lines 16-20: the socket has the id that the connection handler
\* gave it (server.ts, line 34): it is registered, or its connection handler
\* is still suspended
HasId(socketId) == sockets[socketId] # "none" \/ pending[socketId] = "open"

\* values that are not strings: undefined, null, a number
NonStrings == {NoField, "null", "<42>"}

\* handleJoin without the role test of lines 90-93
joinInvalid_roleUnchecked(sessionId, role) ==
    \/ sessionId \in NonStrings
    \/ sessionId = ""

\* handleJoin, lines 85-93
joinInvalid(sessionId, role) ==
    \/ sessionId \in NonStrings
    \/ sessionId = ""
    \/ role \notin Roles

joinNotify(socketId, role) ==
    Envelope("/signal",
             [NoPayload EXCEPT !.type = "peer-joined", !.from = socketId, !.role = role],
             NoField)

\* joinSends with line 113 notifying the students instead of the teacher
joinSends_studentsToo(s, sessionId, socketId, role) ==
    IF role = "teacher"
    THEN sendMany(NoSends, s.students, joinNotify(socketId, role))
    ELSE LET t1 == sendMany(NoSends, s.students \ {socketId}, joinNotify(socketId, role))
         IN  [t1 EXCEPT ![socketId] = @ \o Replay(sessionId, s.teacher)]

\* what handleJoin sends once join() has returned the session view s
joinSends(s, sessionId, socketId, role) ==
    IF role = "teacher"
    THEN sendMany(NoSends, s.students, joinNotify(socketId, role))
    ELSE LET t1 == IF s.teacher # NoConn
                   THEN SendTo(NoSends, s.teacher, joinNotify(socketId, role))
                   ELSE NoSends
         IN  [t1 EXCEPT ![socketId] = @ \o Replay(sessionId, s.teacher)]

\* handle(ws, {type: "join", sessionId, role}) -> handleJoin
HandleJoin(socketId, sessionId, role) ==
    LET dropped == joinInvalid(sessionId, role)
        threw == ~dropped /\ joinThrows(sessions, sessionId, socketId)
    IN  /\ HasId(socketId)
        /\ lastOp' = [NoOp EXCEPT !.op = "join", !.socketId = socketId,
                                  !.sessionId = sessionId, !.role = role,
                                  !.dropped = dropped, !.threw = threw,
                                  !.before = Before]
        /\ IF dropped \/ threw
           THEN /\ UNCHANGED regVars
                /\ tried' = NoSends
           ELSE LET r == join(sessions, socketToSession, sessionId, socketId, role)
                IN  /\ sessions' = r.sessions
                    /\ socketToSession' = r.socketToSession
                    /\ tried' = joinSends(r.sessions[sessionId], sessionId, socketId, role)
        /\ UNCHANGED <<sockets, cacheVars, clientVars, linkVars>>

\* handleRequestState falling back to a fixed session instead of the binding
HandleRequestState_fixedSession(socketId, sessionId) ==
    LET sid == IF sessionId # NoField THEN sessionId ELSE SessionNames[1]
        dropped == sid = NoSession \/ sid = ""
    IN  /\ HasId(socketId)
        /\ lastOp' = [NoOp EXCEPT !.op = "request-state", !.socketId = socketId,
                                  !.sessionId = sessionId, !.dropped = dropped]
        /\ tried' = IF dropped THEN NoSends
                    ELSE [NoSends EXCEPT ![socketId] = Replay(sid, NoConn)]
        /\ UNCHANGED <<regVars, sockets, cacheVars, clientVars, linkVars>>

\* handle(ws, {type: "request-state", sessionId?}) -> handleRequestState
\* request-state whose replay stops at the first item that cannot be sent
HandleRequestState_stopsAtFailure(socketId, sessionId) ==
    LET sid == IF sessionId # NoField THEN sessionId
               ELSE getSessionForSocket(socketToSession, socketId)
        dropped == sid = NoSession \/ sid = ""
        all == Replay(sid, NoConn)
    IN  /\ HasId(socketId)
        /\ lastOp' = [NoOp EXCEPT !.op = "request-state", !.socketId = socketId,
                                  !.sessionId = sessionId, !.dropped = dropped]
        /\ tried' = IF dropped THEN NoSends
                    ELSE IF safeSendDelivers(sockets[socketId]) \/ all = << >>
                    THEN [NoSends EXCEPT ![socketId] = all]
                    ELSE [NoSends EXCEPT ![socketId] = << all[1] >>]
        /\ UNCHANGED <<regVars, sockets, cacheVars, clientVars, linkVars>>

HandleRequestState(socketId, sessionId) ==
    LET sid == IF sessionId # NoField THEN sessionId
               ELSE getSessionForSocket(socketToSession, socketId)
        dropped == sid = NoSession \/ sid = ""
    IN  /\ HasId(socketId)
        /\ lastOp' = [NoOp EXCEPT !.op = "request-state", !.socketId = socketId,
                                  !.sessionId = sessionId, !.dropped = dropped]
        /\ tried' = IF dropped THEN NoSends
                    ELSE [NoSends EXCEPT ![socketId] = Replay(sid, NoConn)]
        /\ UNCHANGED <<regVars, sockets, cacheVars, clientVars, linkVars>>

\* route with the recipient class tested before targetSocketId
route_recipientFirst(s, from, p, out) ==
    IF p.recipient = "teacher"
    THEN (IF s.teacher # NoConn THEN SendTo(NoSends, s.teacher, out) ELSE NoSends)
    ELSE IF p.recipient = "students"
    THEN sendMany(NoSends, s.students, out)
    ELSE IF p.targetSocketId # NoField
    THEN SendTo(NoSends, p.targetSocketId, out)
    ELSE IF s.teacher = from
    THEN sendMany(NoSends, s.students, out)
    ELSE (IF s.teacher # NoConn THEN SendTo(NoSends, s.teacher, out) ELSE NoSends)

\* route without the test of line 71: the default goes to the teacher whoever sends
route_defaultToTeacher(s, from, p, out) ==
    IF p.targetSocketId # NoField
    THEN SendTo(NoSends, p.targetSocketId, out)
    ELSE IF p.recipient = "teacher"
    THEN (IF s.teacher # NoConn THEN SendTo(NoSends, s.teacher, out) ELSE NoSends)
    ELSE IF p.recipient = "students"
    THEN sendMany(NoSends, s.students, out)
    ELSE (IF s.teacher # NoConn THEN SendTo(NoSends, s.teacher, out) ELSE NoSends)

\* the addressing rules of handle, lines 56-75
route(s, from, p, out) ==
    IF p.targetSocketId # NoField
    THEN SendTo(NoSends, p.targetSocketId, out)
    ELSE IF p.recipient = "teacher"
    THEN (IF s.teacher # NoConn THEN SendTo(NoSends, s.teacher, out) ELSE NoSends)
    ELSE IF p.recipient = "students"
    THEN sendMany(NoSends, s.students, out)
    ELSE IF s.teacher = from
    THEN sendMany(NoSends, s.students, out)
    ELSE (IF s.teacher # NoConn THEN SendTo(NoSends, s.teacher, out) ELSE NoSends)

\* handle with {from, ...p} at line 53: a from the payload brings along wins
HandleSignal_keepsFrom(from, p) ==
    LET sessionId == getSessionForSocket(socketToSession, from)
        session == getSession(sessions, sessionId)
        dropped == sessionId = NoSession \/ ~getSessionFound(sessions, sessionId)
        out == Envelope("/signal",
                        IF p.from = NoField THEN [p EXCEPT !.from = from] ELSE p,
                        NoField)
    IN  /\ HasId(from)
        /\ lastOp' = [NoOp EXCEPT !.op = "signal", !.socketId = from,
                                  !.payload = p, !.dropped = dropped]
        /\ tried' = IF dropped THEN NoSends ELSE route(session, from, p, out)
        /\ UNCHANGED <<regVars, sockets, cacheVars, clientVars, linkVars>>

\* handle(ws, payload) for a payload that is neither join nor request-state
HandleSignal(from, p) ==
    LET sessionId == getSessionForSocket(socketToSession, from)
        session == getSession(sessions, sessionId)
        dropped == sessionId = NoSession \/ ~getSessionFound(sessions, sessionId)
        out == Envelope("/signal", [p EXCEPT !.from = from], NoField)
    IN  /\ HasId(from)
        /\ lastOp' = [NoOp EXCEPT !.op = "signal", !.socketId = from,
                                  !.payload = p, !.dropped = dropped]
        /\ tried' = IF dropped THEN NoSends ELSE route(session, from, p, out)
        /\ UNCHANGED <<regVars, sockets, cacheVars, clientVars, linkVars>>

(***************************************************************************)
(* server/server.ts: the connection and close handlers                     *)
(***************************************************************************)
welcome(socketId) ==
    Envelope(NoField, [NoPayload EXCEPT !.type = "welcome", !.body = socketId], NoField)

Connect(socketId) ==
    /\ sockets[socketId] = "none"
    /\ sockets' = register(sockets, socketId)
    /\ tried' = SendTo(NoSends, socketId, welcome(socketId))
    /\ lastOp' = [NoOp EXCEPT !.op = "connect", !.socketId = socketId]
    /\ UNCHANGED <<regVars, cacheVars, clientVars, linkVars>>

\* the handle stops being open before its close event runs
SocketFails(socketId, state) ==
    /\ sockets[socketId] = "open"
    /\ state \in {"closed", "throws"}
    /\ sockets' = [sockets EXCEPT ![socketId] = state]
    /\ tried' = NoSends
    /\ lastOp' = [NoOp EXCEPT !.op = "socket-fails", !.socketId = socketId]
    /\ UNCHANGED <<regVars, cacheVars, clientVars, linkVars>>

\* sessions/cleanup.ts handleDisconnect: unbinds the connection
handleDisconnect(ss, s2s, socketId) == removeSocket(ss, s2s, socketId)

\* ws.on("close"): unregister(socketId), then handleDisconnect(socketId)
OnClose(socketId) ==
    LET r == handleDisconnect(sessions, socketToSession, socketId)
    IN  /\ sockets[socketId] # "none"
        /\ sockets' = unregister(sockets, socketId)
        /\ sessions' = r.sessions
        /\ socketToSession' = r.socketToSession
        /\ tried' = NoSends
        /\ lastOp' = [NoOp EXCEPT !.op = "close", !.socketId = socketId,
                                  !.removedSessions = r.removedSessions,
                                  !.updatedSessions = r.updatedSessions,
                                  !.before = Before]
        /\ UNCHANGED <<cacheVars, clientVars, linkVars>>

(***************************************************************************)
(* The registry's exported operations, called directly.                    *)
(***************************************************************************)
\* createSession(sessionId, teacherSocketId?)
CreateSession(sessionId, teacherSocketId) ==
    /\ sessions' = createSession(sessions, sessionId, teacherSocketId)
    /\ lastOp' = [NoOp EXCEPT !.op = "createSession", !.sessionId = sessionId,
                              !.socketId = teacherSocketId, !.before = Before]
    /\ tried' = NoSends
    /\ UNCHANGED <<socketToSession, sockets, cacheVars, clientVars, linkVars>>

\* join(sessionId, socketId, role)
Join(sessionId, socketId, role) ==
    LET threw == joinThrows(sessions, sessionId, socketId)
    IN  /\ IF threw
           THEN UNCHANGED regVars
           ELSE LET r == join(sessions, socketToSession, sessionId, socketId, role)
                IN  /\ sessions' = r.sessions
                    /\ socketToSession' = r.socketToSession
        /\ lastOp' = [NoOp EXCEPT !.op = "join", !.sessionId = sessionId,
                                  !.socketId = socketId, !.role = role,
                                  !.threw = threw, !.before = Before]
        /\ tried' = NoSends
        /\ UNCHANGED <<sockets, cacheVars, clientVars, linkVars>>

\* removeSocket(socketId)
RemoveSocket(socketId) ==
    LET r == removeSocket(sessions, socketToSession, socketId)
    IN  /\ sessions' = r.sessions
        /\ socketToSession' = r.socketToSession
        /\ lastOp' = [NoOp EXCEPT !.op = "removeSocket", !.socketId = socketId,
                                  !.removedSessions = r.removedSessions,
                                  !.updatedSessions = r.updatedSessions,
                                  !.before = Before]
        /\ tried' = NoSends
        /\ UNCHANGED <<sockets, cacheVars, clientVars, linkVars>>

(***************************************************************************)
(* server/ws/registry.ts, called directly.                                 *)
(***************************************************************************)
\* safeSend's try/catch swallows what ws.send throws, and sendTo's own catch
\* swallows the rest: nothing leaves sendTo as an exception
sendToThrows(socks, socketId) == FALSE

\* sendTo(socketId, message), with what it returned
SendToCall(socketId, message) ==
    /\ tried' = SendTo(NoSends, socketId, message)
    /\ lastOp' = [NoOp EXCEPT !.op = "sendTo", !.socketId = socketId,
                              !.threw = sendToThrows(sockets, socketId),
                              !.returned = sendTo(sockets, socketId)]
    /\ UNCHANGED <<regVars, sockets, cacheVars, clientVars, linkVars>>

(***************************************************************************)
(* The board and avatar producers: what they leave in the cache.           *)
(***************************************************************************)
PushPatch(sessionId, p) ==
    /\ Len(patches[sessionId]) < MaxPatches
    /\ patches' = [patches EXCEPT ![sessionId] = Append(@, p)]
    /\ UNCHANGED <<lastAvatar, lastPhoto, lastLandmarks>>

SetLastAvatar(sessionId, v) ==
    /\ lastAvatar' = [lastAvatar EXCEPT ![sessionId] = v]
    /\ UNCHANGED <<patches, lastPhoto, lastLandmarks>>

SetLastPhoto(sessionId, v) ==
    /\ lastPhoto' = [lastPhoto EXCEPT ![sessionId] = v]
    /\ UNCHANGED <<patches, lastAvatar, lastLandmarks>>

SetLastLandmarks(sessionId, v) ==
    /\ lastLandmarks' = [lastLandmarks EXCEPT ![sessionId] = v]
    /\ UNCHANGED <<patches, lastAvatar, lastPhoto>>

CachePush(sessionId) ==
    /\ \/ \E p \in PatchIds : PushPatch(sessionId, p)
       \/ SetLastAvatar(sessionId, "pose")
       \/ SetLastPhoto(sessionId, "photo")
       \/ SetLastLandmarks(sessionId, "landmarks")
    /\ lastOp' = [NoOp EXCEPT !.op = "cache", !.sessionId = sessionId]
    /\ tried' = NoSends
    /\ UNCHANGED <<regVars, sockets, clientVars, linkVars>>

\* the patches of a session carry that session's mark
PatchOf(sessionId) == IF sessionId = SessionNames[1] THEN "patch1" ELSE "patch2"

\* the producer of one board: its patches
CacheFill(sessionId) ==
    /\ PushPatch(sessionId, PatchOf(sessionId))
    /\ lastOp' = [NoOp EXCEPT !.op = "cache", !.sessionId = sessionId]
    /\ tried' = NoSends
    /\ UNCHANGED <<regVars, sockets, clientVars, linkVars>>

(***************************************************************************)
(* client/src/audio/webrtc.ts: createPC                                    *)
(*                                                                         *)
(* An element of rtc is one RTCPeerConnection with the state of the        *)
(* closure createPC built around it.  remoteDescription is NoField,        *)
(* "pending" (setRemoteDescription called, not settled) or "set"; added    *)
(* lists the calls of pc.addIceCandidate, each with whether the connection *)
(* had a remote description, applied or being applied, when it was called. *)
(* restartAttempts is the counter of the manager's entry for the           *)
(* connection; restarts counts the ICE-restart offers sent for it, and     *)
(* discarded tells that attemptRestart has dropped its entry.              *)
(***************************************************************************)
createPC(targetSocketId) ==
    [targetSocketId |-> targetSocketId, remoteDescSet |-> FALSE, queuedIce |-> << >>,
     localDescription |-> FALSE, remoteDescription |-> NoField, added |-> << >>,
     closed |-> FALSE, restartAttempts |-> 0, restarts |-> 0, discarded |-> FALSE]

\* pc.addIceCandidate(c) inside its try: on a closed connection it throws
pcAddIceCandidate(e, c) ==
    IF e.closed THEN e
    ELSE [e EXCEPT !.added = Append(@, [candidate |-> c,
                                        described |-> e.remoteDescription # NoField])]

\* addIceCandidate, lines 79-89
addIceCandidate(e, c) ==
    IF ~e.remoteDescSet
    THEN [e EXCEPT !.queuedIce = Append(@, c)]
    ELSE pcAddIceCandidate(e, c)

\* one iteration of flushQueue's loop, up to its await
flushNext(e) ==
    IF e.queuedIce = << >> THEN e
    ELSE pcAddIceCandidate([e EXCEPT !.queuedIce = Tail(@)], Head(e.queuedIce))

\* flushQueue up to its first await, lines 91-101
flushQueue(e) == flushNext([e EXCEPT !.remoteDescSet = TRUE])

\* try { pc.close() } catch {}
pcClose(e) == [e EXCEPT !.closed = TRUE]

(***************************************************************************)
(* Suspended async calls, and what the clients send.                       *)
(***************************************************************************)
MaxTasks == 2

Task(fn, target, pc, at) == [fn |-> fn, target |-> target, pc |-> pc, at |-> at]

Suspend(t) == tasks (+) SetToBag({t})

Resume(t, next) == (tasks (-) SetToBag({t})) (+) SetToBag(next)

Suspended == BagToSet(tasks)

CanSuspend == BagCardinality(tasks) < MaxTasks

\* options.send(msg) of the client whose role is given
Send(role, msg) == [outbox EXCEPT ![role] = Append(@, msg)]

sdpMessage(sdpType, recipient, targetSocketId) ==
    [NoPayload EXCEPT !.type = "sdp", !.body = sdpType, !.recipient = recipient,
                      !.targetSocketId = targetSocketId]

Called(kind) == [calls EXCEPT ![kind] = @ + 1]

(***************************************************************************)
(* client/src/audio/webrtc.ts: TeacherAudioManager                         *)
(***************************************************************************)
Targets == DOMAIN pcs

\* addStudent from createPC (line 145) to the await of createOffer (line 186)
addStudentCreate(targetSocketId) ==
    /\ rtc' = Append(rtc, createPC(targetSocketId))
    /\ pcs' = [pcs EXCEPT ![targetSocketId] = Len(rtc) + 1]

\* addStudent(targetSocketId) up to its first await that suspends
AddStudent(targetSocketId) ==
    /\ CanSuspend
    /\ calls' = Called("addStudent")
    /\ IF pcs[targetSocketId] # 0
       THEN UNCHANGED <<rtc, pcs, tasks>>
       ELSE IF localStream = "null"
       THEN /\ tasks' = Suspend(Task("addStudent", targetSocketId, 0, "getLocalStream"))
            /\ UNCHANGED <<rtc, pcs>>
       ELSE /\ addStudentCreate(targetSocketId)
            /\ tasks' = Suspend(Task("addStudent", targetSocketId, Len(rtc) + 1, "createOffer"))
    /\ UNCHANGED <<pcEntry, localStream, arrived, outbox>>

\* getLocalStream() settles: ensureLocalStream stores the stream, addStudent goes on
AddStudentStream(t) ==
    /\ t \in Suspended /\ t.fn = "addStudent" /\ t.at = "getLocalStream"
    /\ localStream' = "stream"
    /\ addStudentCreate(t.target)
    /\ tasks' = Resume(t, {Task("addStudent", t.target, Len(rtc) + 1, "createOffer")})
    /\ UNCHANGED <<pcEntry, arrived, calls, outbox>>

\* createOffer() settles: setLocalDescription is called; on a closed
\* connection createOffer rejects and addStudent ends there
AddStudentOffer(t) ==
    /\ t \in Suspended /\ t.fn = "addStudent" /\ t.at = "createOffer"
    /\ tasks' = Resume(t, IF rtc[t.pc].closed THEN {}
                          ELSE {[t EXCEPT !.at = "setLocalDescription"]})
    /\ UNCHANGED <<rtc, pcs, pcEntry, localStream, arrived, calls, outbox>>

\* setLocalDescription() settles: the offer is sent and flushQueue is called;
\* on a closed connection setLocalDescription rejects and addStudent ends there
AddStudentSend(t) ==
    /\ t \in Suspended /\ t.fn = "addStudent" /\ t.at = "setLocalDescription"
    /\ IF rtc[t.pc].closed
       THEN /\ tasks' = Resume(t, {})
            /\ UNCHANGED <<rtc, outbox>>
       ELSE /\ outbox' = Send("teacher", sdpMessage("offer", "students", t.target))
            /\ LET e == [rtc[t.pc] EXCEPT !.localDescription = TRUE]
               IN  /\ rtc' = [rtc EXCEPT ![t.pc] = flushQueue(e)]
                   /\ tasks' = Resume(t, IF e.queuedIce = << >> THEN {}
                                         ELSE {[t EXCEPT !.at = "flushQueue"]})
    /\ UNCHANGED <<pcs, pcEntry, localStream, arrived, calls>>

\* the pc.addIceCandidate that flushQueue awaits settles: the loop goes on
FlushStep(t) ==
    /\ t \in Suspended /\ t.at = "flushQueue"
    /\ rtc' = [rtc EXCEPT ![t.pc] = flushNext(@)]
    /\ tasks' = Resume(t, IF rtc[t.pc].queuedIce # << >> THEN {t}
                          ELSE IF t.fn = "handleOffer" THEN {[t EXCEPT !.at = "createAnswer"]}
                          ELSE {})
    /\ UNCHANGED <<pcs, pcEntry, localStream, arrived, calls, outbox>>

\* handleAnswer(fromSocketId, answer) up to its await: setRemoteDescription is
\* called; the connection takes an answer only while it has a local offer
TeacherHandleAnswer(fromSocketId) ==
    LET k == pcs[fromSocketId]
        takes == k # 0 /\ rtc[k].localDescription /\ ~rtc[k].closed
                       /\ rtc[k].remoteDescription = NoField
    IN  /\ CanSuspend
        /\ calls' = Called("handleAnswer")
        /\ IF takes
           THEN /\ rtc' = [rtc EXCEPT ![k].remoteDescription = "pending"]
                /\ tasks' = Suspend(Task("handleAnswer", fromSocketId, k, "setRemoteDescription"))
           ELSE UNCHANGED <<rtc, tasks>>
        /\ UNCHANGED <<pcs, pcEntry, localStream, arrived, outbox>>

\* the setRemoteDescription of handleAnswer settles
TeacherAnswerApplied(t) ==
    /\ t \in Suspended /\ t.fn = "handleAnswer"
    /\ rtc' = [rtc EXCEPT ![t.pc].remoteDescription = "set"]
    /\ tasks' = Resume(t, {})
    /\ UNCHANGED <<pcs, pcEntry, localStream, arrived, calls, outbox>>

CallKinds == {"addStudent", "handleAnswer", "handleIce", "handleOffer",
              "join", "icecandidate", "failure", "removeStudent", "close"}

\* the candidates a peer sends are c1, c2, c3, ... in this order
Candidate(n) == n

\* how the arrival of a candidate is remembered: the connections that existed
\* without an applied remote description when it came
Arrival(fromSocketId, c) ==
    [from |-> fromSocketId, candidate |-> c,
     undescribed |-> {k \in 1..Len(rtc) : /\ rtc[k].targetSocketId = fromSocketId
                                          /\ ~rtc[k].closed
                                          /\ rtc[k].remoteDescription # "set"}]

\* handleIce(fromSocketId, candidate), lines 209-213
TeacherHandleIce(fromSocketId, c) ==
    LET k == pcs[fromSocketId]
    IN  /\ arrived' = Append(arrived, Arrival(fromSocketId, c))
        /\ calls' = Called("handleIce")
        /\ rtc' = IF k = 0 THEN rtc ELSE [rtc EXCEPT ![k] = addIceCandidate(@, c)]
        /\ UNCHANGED <<pcs, pcEntry, localStream, tasks, outbox>>

(***************************************************************************)
(* client/src/audio/webrtc.ts: TeacherAudioManager.attemptRestart          *)
(***************************************************************************)
MaxRestartAttempts == 3   \* the 3 of line 226

RetryBase == 1000         \* the 1000 of lines 250 and 384, in milliseconds

\* the delay of setTimeout(() => this.attemptRestart(..), 1000 *
\* ent.restartAttempts) in the catch, lines 250 and 384, on the entry e of the
\* failed restart
retryDelay(e) == RetryBase * e.restartAttempts

\* attemptRestart(targetSocketId) up to its first await, lines 222-234, on
\* the connections r, the entries p and the suspended calls tk
teacherAttemptRestart(r, p, tk, targetSocketId) ==
    LET k == p[targetSocketId]
    IN  IF k = 0
        THEN [rtc |-> r, pcs |-> p, tasks |-> tk]
        ELSE IF r[k].restartAttempts >= MaxRestartAttempts
        THEN [rtc |-> [r EXCEPT ![k].restartAttempts = @ + 1, ![k].discarded = TRUE],
              pcs |-> [p EXCEPT ![targetSocketId] = 0],
              tasks |-> tk (+) SetToBag({Task("addStudent", targetSocketId, 0, "timer")})]
        ELSE [rtc |-> [r EXCEPT ![k].restartAttempts = @ + 1],
              pcs |-> p,
              tasks |-> tk (+) SetToBag({Task("attemptRestart", targetSocketId, k,
                                              "createOffer")})]

\* pc.onconnectionstatechange of connection k with connectionState failed or
\* disconnected, lines 170-177
TeacherConnectionFails(k) ==
    LET a == teacherAttemptRestart(rtc, pcs, tasks, rtc[k].targetSocketId)
    IN  /\ k \in 1..Len(rtc)
        /\ ~rtc[k].closed /\ rtc[k].localDescription
        /\ CanSuspend
        /\ calls' = Called("failure")
        /\ rtc' = a.rtc /\ pcs' = a.pcs /\ tasks' = a.tasks
        /\ UNCHANGED <<pcEntry, localStream, arrived, outbox>>

\* createOffer({iceRestart: true}) settles.  Fulfilled: setLocalDescription is
\* called.  Rejected (always on a closed connection): the catch sets the timer
\* of line 250.
TeacherRestartOffer(t, fulfilled) ==
    /\ t \in Suspended /\ t.fn = "attemptRestart" /\ t.at = "createOffer"
    /\ rtc[t.pc].closed => ~fulfilled
    /\ tasks' = Resume(t, {[t EXCEPT !.at = IF fulfilled THEN "setLocalDescription"
                                            ELSE "timer"]})
    /\ UNCHANGED <<rtc, pcs, pcEntry, localStream, arrived, calls, outbox>>

\* setLocalDescription settles and the restart offer is sent, lines 240-246;
\* on a closed connection it rejects and the catch sets the timer of line 250
TeacherRestartSend(t) ==
    /\ t \in Suspended /\ t.fn = "attemptRestart" /\ t.at = "setLocalDescription"
    /\ IF rtc[t.pc].closed
       THEN /\ tasks' = Resume(t, {[t EXCEPT !.at = "timer"]})
            /\ UNCHANGED <<rtc, outbox>>
       ELSE /\ outbox' = Send("teacher", sdpMessage("offer", "students", t.target))
            /\ rtc' = [rtc EXCEPT ![t.pc].restarts = @ + 1]
            /\ tasks' = Resume(t, {})
    /\ UNCHANGED <<pcs, pcEntry, localStream, arrived, calls>>

\* the timer of line 250 fires: attemptRestart(targetSocketId) again
TeacherRestartTimer(t) ==
    LET a == teacherAttemptRestart(rtc, pcs, tasks (-) SetToBag({t}), t.target)
    IN  /\ t \in Suspended /\ t.fn = "attemptRestart" /\ t.at = "timer"
        /\ rtc' = a.rtc /\ pcs' = a.pcs /\ tasks' = a.tasks
        /\ UNCHANGED <<pcEntry, localStream, arrived, calls, outbox>>

\* the timer of line 229 fires: addStudent(targetSocketId), up to its first
\* await that suspends
TeacherRebuildTimer(t) ==
    /\ t \in Suspended /\ t.fn = "addStudent" /\ t.at = "timer"
    /\ IF pcs[t.target] # 0
       THEN /\ tasks' = Resume(t, {})
            /\ UNCHANGED <<rtc, pcs>>
       ELSE IF localStream = "null"
       THEN /\ tasks' = Resume(t, {Task("addStudent", t.target, 0, "getLocalStream")})
            /\ UNCHANGED <<rtc, pcs>>
       ELSE /\ addStudentCreate(t.target)
            /\ tasks' = Resume(t, {Task("addStudent", t.target, Len(rtc) + 1, "createOffer")})
    /\ UNCHANGED <<pcEntry, localStream, arrived, calls, outbox>>

\* removeStudent that tears down every entry instead of the one of its argument
TeacherRemoveStudent_everyEntry(targetSocketId) ==
    /\ calls' = Called("removeStudent")
    /\ rtc' = [k \in 1..Len(rtc) |->
                  IF \E t \in Targets : pcs[t] = k THEN pcClose(rtc[k]) ELSE rtc[k]]
    /\ pcs' = [t \in Targets |-> 0]
    /\ UNCHANGED <<pcEntry, localStream, tasks, arrived, outbox>>

\* removeStudent(targetSocketId), lines 215-220
TeacherRemoveStudent(targetSocketId) ==
    LET k == pcs[targetSocketId]
    IN  /\ calls' = Called("removeStudent")
        /\ IF k = 0
           THEN UNCHANGED <<rtc, pcs>>
           ELSE /\ rtc' = [rtc EXCEPT ![k] = pcClose(@)]
                /\ pcs' = [pcs EXCEPT ![targetSocketId] = 0]
        /\ UNCHANGED <<pcEntry, localStream, tasks, arrived, outbox>>

\* close(), lines 275-284: every entry's connection is closed and the entry
\* deleted, the tracks of the local stream are stopped and the stream dropped
TeacherClose ==
    /\ calls' = Called("close")
    /\ rtc' = [k \in 1..Len(rtc) |->
                  IF \E t \in Targets : pcs[t] = k THEN pcClose(rtc[k]) ELSE rtc[k]]
    /\ pcs' = [t \in Targets |-> 0]
    /\ localStream' = "null"
    /\ UNCHANGED <<pcEntry, tasks, arrived, outbox>>

(***************************************************************************)
(* client/src/audio/webrtc.ts: StudentAudioManager                         *)
(***************************************************************************)
\* handleOffer(fromSocketId, offer) up to its first await: the prior entry is
\* closed and dropped, a connection is made, setRemoteDescription is called
StudentHandleOffer(fromSocketId) ==
    /\ CanSuspend
    /\ calls' = Called("handleOffer")
    /\ rtc' = Append(IF pcEntry # 0 THEN [rtc EXCEPT ![pcEntry] = pcClose(@)] ELSE rtc,
                     [createPC(fromSocketId) EXCEPT !.remoteDescription = "pending"])
    /\ pcEntry' = 0
    /\ tasks' = Suspend(Task("handleOffer", fromSocketId, Len(rtc) + 1, "setRemoteDescription"))
    /\ UNCHANGED <<pcs, localStream, arrived, outbox>>

\* setRemoteDescription settles.  Fulfilled: flushQueue and createAnswer are
\* called.  Rejected: the catch logs it and the entry is stored (lines 354-359).
StudentOfferApplied(t, fulfilled) ==
    /\ t \in Suspended /\ t.fn = "handleOffer" /\ t.at = "setRemoteDescription"
    /\ IF fulfilled
       THEN LET e == [rtc[t.pc] EXCEPT !.remoteDescription = "set"]
            IN  /\ rtc' = [rtc EXCEPT ![t.pc] = flushQueue(e)]
                /\ tasks' = Resume(t, {[t EXCEPT !.at = IF e.queuedIce = << >>
                                                         THEN "createAnswer"
                                                         ELSE "flushQueue"]})
                /\ UNCHANGED pcEntry
       ELSE /\ rtc' = [rtc EXCEPT ![t.pc].remoteDescription = NoField]
            /\ tasks' = Resume(t, {})
            /\ pcEntry' = t.pc
    /\ UNCHANGED <<pcs, localStream, arrived, calls, outbox>>

\* createAnswer() settles: setLocalDescription is called
StudentAnswerCreated(t) ==
    /\ t \in Suspended /\ t.fn = "handleOffer" /\ t.at = "createAnswer"
    /\ tasks' = Resume(t, {[t EXCEPT !.at = "setLocalDescription"]})
    /\ UNCHANGED <<rtc, pcs, pcEntry, localStream, arrived, calls, outbox>>

\* setLocalDescription() settles: the answer is sent and the entry is stored
StudentAnswerSend(t) ==
    /\ t \in Suspended /\ t.fn = "handleOffer" /\ t.at = "setLocalDescription"
    /\ rtc' = [rtc EXCEPT ![t.pc].localDescription = TRUE]
    /\ outbox' = Send("student", sdpMessage("answer", "teacher", t.target))
    /\ pcEntry' = t.pc
    /\ tasks' = Resume(t, {})
    /\ UNCHANGED <<pcs, localStream, arrived, calls>>

\* handleIce(_, candidate), lines 362-364
StudentHandleIce(fromSocketId, c) ==
    /\ arrived' = Append(arrived, Arrival(fromSocketId, c))
    /\ calls' = Called("handleIce")
    /\ rtc' = IF pcEntry = 0 THEN rtc ELSE [rtc EXCEPT ![pcEntry] = addIceCandidate(@, c)]
    /\ UNCHANGED <<pcs, pcEntry, localStream, tasks, outbox>>

(***************************************************************************)
(* client/src/audio/webrtc.ts: StudentAudioManager.attemptRestart          *)
(***************************************************************************)
\* attemptRestart(teacherSocketId) up to its first await, lines 366-377, on
\* the connections r, the entry e and the suspended calls tk
studentAttemptRestart(r, e, tk, teacherSocketId) ==
    IF e = 0
    THEN [rtc |-> r, pcEntry |-> e, tasks |-> tk]
    ELSE IF r[e].restartAttempts >= MaxRestartAttempts
    THEN [rtc |-> [r EXCEPT ![e] = [pcClose(@) EXCEPT !.discarded = TRUE]],
          pcEntry |-> 0,
          tasks |-> tk]
    ELSE [rtc |-> r,
          pcEntry |-> e,
          tasks |-> tk (+) SetToBag({Task("attemptRestart", teacherSocketId, e,
                                          "createOffer")})]

\* pc.onconnectionstatechange of connection k with connectionState failed or
\* disconnected, lines 313-320
StudentConnectionFails(k) ==
    LET a == studentAttemptRestart(rtc, pcEntry, tasks, rtc[k].targetSocketId)
    IN  /\ k \in 1..Len(rtc)
        /\ ~rtc[k].closed /\ rtc[k].localDescription
        /\ CanSuspend
        /\ calls' = Called("failure")
        /\ rtc' = a.rtc /\ pcEntry' = a.pcEntry /\ tasks' = a.tasks
        /\ UNCHANGED <<pcs, localStream, arrived, outbox>>

\* createOffer({iceRestart: true}) settles.  Fulfilled: setLocalDescription is
\* called.  Rejected (always on a closed connection): the catch sets the timer
\* of line 384.
StudentRestartOffer(t, fulfilled) ==
    /\ t \in Suspended /\ t.fn = "attemptRestart" /\ t.at = "createOffer"
    /\ rtc[t.pc].closed => ~fulfilled
    /\ tasks' = Resume(t, {[t EXCEPT !.at = IF fulfilled THEN "setLocalDescription"
                                            ELSE "timer"]})
    /\ UNCHANGED <<rtc, pcs, pcEntry, localStream, arrived, calls, outbox>>

\* setLocalDescription settles and the restart offer is sent, lines 379-381;
\* on a closed connection it rejects and the catch sets the timer of line 384
StudentRestartSend(t) ==
    /\ t \in Suspended /\ t.fn = "attemptRestart" /\ t.at = "setLocalDescription"
    /\ IF rtc[t.pc].closed
       THEN /\ tasks' = Resume(t, {[t EXCEPT !.at = "timer"]})
            /\ UNCHANGED <<rtc, outbox>>
       ELSE /\ outbox' = Send("student", sdpMessage("offer", "teacher", t.target))
            /\ rtc' = [rtc EXCEPT ![t.pc].restarts = @ + 1]
            /\ tasks' = Resume(t, {})
    /\ UNCHANGED <<pcs, pcEntry, localStream, arrived, calls>>

\* the timer of line 384 fires: attemptRestart(teacherSocketId) again
StudentRestartTimer(t) ==
    LET a == studentAttemptRestart(rtc, pcEntry, tasks (-) SetToBag({t}), t.target)
    IN  /\ t \in Suspended /\ t.fn = "attemptRestart" /\ t.at = "timer"
        /\ rtc' = a.rtc /\ pcEntry' = a.pcEntry /\ tasks' = a.tasks
        /\ UNCHANGED <<pcs, localStream, arrived, calls, outbox>>

(***************************************************************************)
(* Specifications of the server.                                           *)
(***************************************************************************)
vars == <<serverVars, clientVars, wireVars, linkVars>>

\* the server after startup: no session, no connection, nothing cached
InitServer(C, S) ==
    /\ sessions = << >>
    /\ socketToSession = [c \in C |-> NoSession]
    /\ sockets = [c \in C |-> "none"]
    /\ patches = [sid \in S |-> << >>]
    /\ lastAvatar = [sid \in S |-> NoField]
    /\ lastPhoto = [sid \in S |-> NoField]
    /\ lastLandmarks = [sid \in S |-> NoField]
    /\ lastOp = NoOp
    /\ tried = [c \in C |-> << >>]
    /\ pending = [c \in C |-> "none"]

\* the clients before anything has happened; T: the peers the teacher may add
InitClient(T) ==
    /\ rtc = << >>
    /\ pcs = [t \in T |-> 0]
    /\ pcEntry = 0
    /\ localStream = "null"
    /\ tasks = EmptyBag
    /\ arrived = << >>
    /\ calls = [kind \in CallKinds |-> 0]
    /\ outbox = [role \in Roles |-> << >>]
    /\ inbox = [c \in DOMAIN sockets |-> << >>]
    /\ handled = << >>
    /\ socket = "connecting"
    /\ reconnectAttempts = 0
    /\ timer = 0
    /\ history = << >>

\* the session registry on its own: its operations in any order
NextRegistry ==
    \/ \E sid \in AllSessionIds, t \in AllConns \cup {NoConn} :
          CreateSession(sid, t) /\ UNCHANGED wireVars
    \/ \E sid \in AllSessionIds \cup {""}, c \in AllConns, role \in Roles :
          Join(sid, c, role) /\ UNCHANGED wireVars
    \/ \E c \in AllConns :
          RemoveSocket(c) /\ UNCHANGED wireVars

InitRegistry == InitServer(Conns, SessionIds) /\ InitClient({})

SpecRegistry == InitRegistry /\ [][NextRegistry]_vars

\* the same operations on two sessions
InitRegistryPair == InitServer(Conns, SessionPair) /\ InitClient({})

SpecRegistryPair == InitRegistryPair /\ [][NextRegistry]_vars

\* The payloads a client may send on /signal besides join and request-state.
\* The router reads neither type nor body and forwards sdp and ice payloads
\* alike, so one type stands for both here.
Recipients == {NoField, "teacher", "students", "all"}
RouterPayloads ==
    {[NoPayload EXCEPT !.type = "sdp", !.recipient = r, !.targetSocketId = t, !.from = f] :
        r \in Recipients, t \in AllConns \cup {NoField}, f \in {NoField, ConnNames[1]}}

\* the signaling router: connections come and go, join and exchange messages
NextRouter ==
    \/ \E c \in AllConns :
          Connect(c) /\ UNCHANGED wireVars
    \/ \E c \in AllConns :
          OnClose(c) /\ UNCHANGED wireVars
    \/ \E sid \in AllSessionIds, t \in AllConns \cup {NoConn} :
          CreateSession(sid, t) /\ UNCHANGED wireVars
    \/ \E c \in AllConns, sid \in AllSessionIds \cup {""} \cup NonStrings,
          role \in Roles \cup {"admin", NoField} :
          HandleJoin(c, sid, role) /\ UNCHANGED wireVars
    \/ \E c \in AllConns, p \in RouterPayloads :
          HandleSignal(c, p) /\ UNCHANGED wireVars
    \/ \E c \in AllConns :
          RemoveSocket(c) /\ UNCHANGED wireVars

InitRouter == InitServer(Peers, RouterSessions) /\ InitClient({})

SpecRouter == InitRouter /\ [][NextRouter]_vars

\* the payloads without targetSocketId
ClassPayloads == {p \in RouterPayloads : p.targetSocketId = NoField}

\* the router with handles that stop being open before their close event
\* runs: members of a session exchange messages addressed by class or not
\* addressed at all
NextClassRouter ==
    \/ \E c \in AllConns :
          Connect(c) /\ UNCHANGED wireVars
    \/ \E c \in AllConns, state \in {"closed", "throws"} :
          SocketFails(c, state) /\ UNCHANGED wireVars
    \/ \E c \in AllConns :
          OnClose(c) /\ UNCHANGED wireVars
    \/ \E sid \in AllSessionIds :
          CreateSession(sid, NoConn) /\ UNCHANGED wireVars
    \/ \E c \in AllConns, sid \in AllSessionIds, role \in Roles :
          HandleJoin(c, sid, role) /\ UNCHANGED wireVars
    \/ \E c \in AllConns, p \in ClassPayloads :
          HandleSignal(c, p) /\ UNCHANGED wireVars

InitClassRouter == InitServer(Peers, RouterSessions) /\ InitClient({})

SpecClassRouter == InitClassRouter /\ [][NextClassRouter]_vars

\* the send registry on its own: handles open, fail and close, and sendTo is
\* called for any connection identity
NextSend ==
    \/ \E c \in AllConns :
          Connect(c) /\ UNCHANGED wireVars
    \/ \E c \in AllConns, state \in {"closed", "throws"} :
          SocketFails(c, state) /\ UNCHANGED wireVars
    \/ \E c \in AllConns :
          OnClose(c) /\ UNCHANGED wireVars
    \/ \E c \in AllConns, from \in AllConns, role \in Roles :
          SendToCall(c, joinNotify(from, role)) /\ UNCHANGED wireVars

InitSend == InitServer(Conns, {}) /\ InitClient({})

SpecSend == InitSend /\ [][NextSend]_vars

\* the late-join cache: producers fill it, joins and request-state replay it
NextReplay ==
    \/ \E c \in AllConns :
          Connect(c) /\ UNCHANGED wireVars
    \/ \E c \in AllConns :
          OnClose(c) /\ UNCHANGED wireVars
    \/ \E sid \in AllSessionIds :
          CreateSession(sid, NoConn) /\ UNCHANGED wireVars
    \/ \E sid \in AllSessionIds :
          CachePush(sid) /\ UNCHANGED wireVars
    \/ \E c \in AllConns, sid \in AllSessionIds, role \in Roles :
          HandleJoin(c, sid, role) /\ UNCHANGED wireVars
    \/ \E c \in AllConns, sid \in AllSessionIds \cup {NoField} :
          HandleRequestState(c, sid) /\ UNCHANGED wireVars

InitReplay == InitServer(Conns, RouterSessions) /\ InitClient({})

SpecReplay == InitReplay /\ [][NextReplay]_vars

\* request-state with two sessions side by side, each with its own cache
NextRequestState ==
    \/ \E c \in AllConns :
          Connect(c) /\ UNCHANGED wireVars
    \/ \E sid \in AllSessionIds :
          CreateSession(sid, NoConn) /\ UNCHANGED wireVars
    \/ \E sid \in AllSessionIds :
          CacheFill(sid) /\ UNCHANGED wireVars
    \/ \E c \in AllConns, sid \in AllSessionIds, role \in Roles :
          HandleJoin(c, sid, role) /\ UNCHANGED wireVars
    \/ \E c \in AllConns, sid \in AllSessionIds \cup {NoField} :
          HandleRequestState(c, sid) /\ UNCHANGED wireVars

InitRequestState == InitServer(Conns, SessionPair) /\ InitClient({})

SpecRequestState == InitRequestState /\ [][NextRequestState]_vars

(***************************************************************************)
(* Specifications of the clients' audio managers: the application and the  *)
(* network call their methods in any order.                                *)
(***************************************************************************)
NumStudents == 2   \* the peers of the teacher specification
MaxAddStudent == 2 \* calls of addStudent
MaxAnswers == 2    \* answers that arrive
MaxIce == 3        \* candidates that arrive
MaxOffers == 2     \* offers that arrive at the student

Students == {ConnNames[i + 1] : i \in 1..NumStudents}

\* the candidate that arrives next from a peer
NextCandidate(fromSocketId) ==
    Candidate(Len(SelectSeq(arrived, LAMBDA a : a.from = fromSocketId)) + 1)

idle == <<serverVars, inbox, handled, linkVars>>

NextTeacher ==
    \/ \E t \in Targets :
          calls["addStudent"] < MaxAddStudent /\ AddStudent(t) /\ UNCHANGED idle
    \/ \E t \in Suspended :
          AddStudentStream(t) /\ UNCHANGED idle
    \/ \E t \in Suspended :
          AddStudentOffer(t) /\ UNCHANGED idle
    \/ \E t \in Suspended :
          AddStudentSend(t) /\ UNCHANGED idle
    \/ \E t \in Suspended :
          FlushStep(t) /\ UNCHANGED idle
    \/ \E from \in Targets :
          calls["handleAnswer"] < MaxAnswers /\ TeacherHandleAnswer(from) /\ UNCHANGED idle
    \/ \E t \in Suspended :
          TeacherAnswerApplied(t) /\ UNCHANGED idle
    \/ \E from \in Targets :
          /\ calls["handleIce"] < MaxIce
          /\ TeacherHandleIce(from, NextCandidate(from))
          /\ UNCHANGED idle

InitTeacher == InitServer({}, {}) /\ InitClient(Students)

SpecTeacher == InitTeacher /\ [][NextTeacher]_vars

TeacherConn == ConnNames[1]
StudentConn == ConnNames[2]

NextStudent ==
    \/ calls["handleOffer"] < MaxOffers /\ StudentHandleOffer(TeacherConn) /\ UNCHANGED idle
    \/ \E t \in Suspended, fulfilled \in BOOLEAN :
          StudentOfferApplied(t, fulfilled) /\ UNCHANGED idle
    \/ \E t \in Suspended :
          StudentAnswerCreated(t) /\ UNCHANGED idle
    \/ \E t \in Suspended :
          StudentAnswerSend(t) /\ UNCHANGED idle
    \/ /\ calls["handleIce"] < MaxIce
       /\ StudentHandleIce(TeacherConn, NextCandidate(TeacherConn))
       /\ UNCHANGED idle

InitStudent == InitServer({}, {}) /\ InitClient({})

SpecStudent == InitStudent /\ [][NextStudent]_vars

(***************************************************************************)
(* Specifications of the managers' failure handling: the connections of    *)
(* one peer fail again and again.                                          *)
(***************************************************************************)
MaxFailures == 5   \* failed/disconnected events in all

RestartPeers == {ConnNames[2]}

NextTeacherRestart ==
    \/ \E t \in Targets :
          calls["addStudent"] < MaxAddStudent /\ AddStudent(t) /\ UNCHANGED idle
    \/ \E t \in Suspended :
          AddStudentStream(t) /\ UNCHANGED idle
    \/ \E t \in Suspended :
          AddStudentOffer(t) /\ UNCHANGED idle
    \/ \E t \in Suspended :
          AddStudentSend(t) /\ UNCHANGED idle
    \/ \E k \in 1..Len(rtc) :
          calls["failure"] < MaxFailures /\ TeacherConnectionFails(k) /\ UNCHANGED idle
    \/ \E t \in Suspended, fulfilled \in BOOLEAN :
          TeacherRestartOffer(t, fulfilled) /\ UNCHANGED idle
    \/ \E t \in Suspended :
          TeacherRestartSend(t) /\ UNCHANGED idle
    \/ \E t \in Suspended :
          TeacherRestartTimer(t) /\ UNCHANGED idle
    \/ \E t \in Suspended :
          TeacherRebuildTimer(t) /\ UNCHANGED idle

InitTeacherRestart == InitServer({}, {}) /\ InitClient(RestartPeers)

SpecTeacherRestart == InitTeacherRestart /\ [][NextTeacherRestart]_vars

(***************************************************************************)
(* A teacher client and a student client on a server: what the clients     *)
(* send goes through the server's handle, what the server sends goes       *)
(* through the client transport's onmessage to the page's handlers.        *)
(***************************************************************************)
MaxJoins == 2          \* join messages the two clients send in all
MaxLocalCandidates == 1 \* icecandidate events of the teacher's connections

ConnOf(role) == IF role = "teacher" THEN TeacherConn ELSE StudentConn

\* App.tsx handleTeacherStart, StudentPage.tsx: sendMessage({type: "join", ...})
joinMessage(sessionId, role) ==
    [NoPayload EXCEPT !.type = "join", !.sessionId = sessionId, !.role = role]

ClientJoins(role, sessionId) ==
    /\ sockets[ConnOf(role)] = "open"
    /\ calls["join"] < MaxJoins
    /\ \A i \in 1..Len(handled) : handled[i].from # ConnOf(role)
    /\ outbox[role] = << >>
    /\ outbox' = Send(role, joinMessage(sessionId, role))
    /\ calls' = Called("join")
    /\ UNCHANGED <<serverVars, rtc, pcs, pcEntry, localStream, tasks, arrived, inbox, handled,
                   linkVars>>

\* the messages the last operation delivered reach the clients' sockets
Deliver ==
    inbox' = [c \in DOMAIN inbox |->
                 inbox[c] \o (IF safeSendDelivers(sockets'[c]) THEN tried'[c] ELSE << >>)]

\* signaling.ts handle, lines 14-37: join and request-state have their handlers
ServerHandle(from, p) ==
    IF p.type = "join" THEN HandleJoin(from, p.sessionId, p.role)
    ELSE IF p.type = "request-state" THEN HandleRequestState(from, p.sessionId)
    ELSE HandleSignal(from, p)

\* ws.on("message"): the server reads the next message of a client
ServerReceives(role) ==
    /\ outbox[role] # << >>
    /\ ServerHandle(ConnOf(role), Head(outbox[role]))
    /\ outbox' = [outbox EXCEPT ![role] = Tail(@)]
    /\ handled' = Append(handled, [from |-> ConnOf(role), payload |-> Head(outbox[role])])
    /\ Deliver

\* server.ts: a client connects and is sent the welcome
ClientConnects(role) ==
    /\ Connect(ConnOf(role))
    /\ Deliver
    /\ UNCHANGED <<outbox, handled>>

\* the registry's createSession called for a session id, without a teacher
SessionCreated(sessionId) ==
    /\ CreateSession(sessionId, NoConn)
    /\ UNCHANGED wireVars

\* socket.ts onmessage, lines 61-70: what a /signal handler is called with
onmessage(data) == [data.payload EXCEPT !.from = data.from]

nothing == UNCHANGED <<clientVars, outbox>>

\* TeacherPage.tsx, lines 218-228, and webRtcTeacher.ts handleSignalingMessage
\* (handleWorkerOffer, for an offer that reaches the teacher, is left out)
TeacherPageHandles(msg) ==
    IF msg.from = NoField THEN nothing
    ELSE IF msg.type = "peer-joined" THEN AddStudent(msg.from)
    ELSE IF msg.type = "sdp" /\ msg.body = "answer" THEN TeacherHandleAnswer(msg.from)
    ELSE IF msg.type = "ice" THEN TeacherHandleIce(msg.from, msg.body)
    ELSE nothing

\* StudentPage.tsx, lines 66-67, and webRtcStudent.ts handleSignalingMessage
StudentPageHandles(msg) ==
    IF msg.from = NoField THEN nothing
    ELSE IF msg.type = "sdp" /\ msg.body = "offer" THEN StudentHandleOffer(msg.from)
    ELSE IF msg.type = "ice" THEN StudentHandleIce(msg.from, msg.body)
    ELSE nothing

\* the client reads the next message of its socket
ClientReceives(role) ==
    LET c == ConnOf(role)
        data == Head(inbox[c])
    IN  /\ inbox[c] # << >>
        /\ inbox' = [inbox EXCEPT ![c] = Tail(@)]
        /\ IF data.channel # "/signal" THEN nothing
           ELSE IF role = "teacher" THEN TeacherPageHandles(onmessage(data))
           ELSE StudentPageHandles(onmessage(data))
        /\ UNCHANGED <<serverVars, handled, linkVars>>

\* The server reads the student's next message.  An offer addressed to the
\* teacher is taken to reach the teacher's handleWorkerOffer, webrtc.ts lines
\* 254-273, whose answer {type: "sdp", sdpType: "answer", recipient: "students",
\* targetSocketId: fromSocketId} the server's handle sends on to the student.
WorkerAnswer ==
    LET p == Head(outbox["student"])
        answer == sdpMessage("answer", "students", StudentConn)
        out == Envelope("/signal", [answer EXCEPT !.from = TeacherConn], NoField)
    IN  /\ outbox["student"] # << >>
        /\ outbox' = [outbox EXCEPT !["student"] = Tail(@)]
        /\ inbox' = IF p.type = "sdp" /\ p.body = "offer"
                    THEN [inbox EXCEPT ![StudentConn] = Append(@, out)]
                    ELSE inbox
        /\ UNCHANGED <<serverVars, clientVars, handled, linkVars>>

\* the student's manager with failing connections, the teacher's answers to
\* its restart offers and the student's page reading them
NextStudentRestart ==
    \/ calls["handleOffer"] < MaxOffers /\ StudentHandleOffer(TeacherConn) /\ UNCHANGED idle
    \/ \E t \in Suspended, fulfilled \in BOOLEAN :
          StudentOfferApplied(t, fulfilled) /\ UNCHANGED idle
    \/ \E t \in Suspended :
          StudentAnswerCreated(t) /\ UNCHANGED idle
    \/ \E t \in Suspended :
          StudentAnswerSend(t) /\ UNCHANGED idle
    \/ \E k \in 1..Len(rtc) :
          calls["failure"] < MaxFailures /\ StudentConnectionFails(k) /\ UNCHANGED idle
    \/ \E t \in Suspended, fulfilled \in BOOLEAN :
          StudentRestartOffer(t, fulfilled) /\ UNCHANGED idle
    \/ \E t \in Suspended :
          StudentRestartSend(t) /\ UNCHANGED idle
    \/ \E t \in Suspended :
          StudentRestartTimer(t) /\ UNCHANGED idle
    \/ WorkerAnswer
    \/ ClientReceives("student")

InitStudentRestart == InitServer({StudentConn}, {}) /\ InitClient({})

SpecStudentRestart == InitStudentRestart /\ [][NextStudentRestart]_vars

HasJoined(role) ==
    \E i \in 1..Len(handled) :
        /\ handled[i].from = ConnOf(role)
        /\ handled[i].payload.type = "join"
        /\ handled[i].payload.role = role

\* the teacher's page calls addStudent for a student whose join the server has
\* handled
TeacherAddsStudent(targetSocketId) ==
    /\ HasJoined("student")
    /\ calls["addStudent"] < MaxAddStudent
    /\ AddStudent(targetSocketId)
    /\ UNCHANGED idle

\* createPC's pc.onicecandidate, lines 61-70: a connection of the teacher that
\* has its local description finds a candidate and sends it
IceCandidate(k) ==
    /\ calls["icecandidate"] < MaxLocalCandidates
    /\ rtc[k].localDescription /\ ~rtc[k].closed
    /\ outbox' = Send("teacher",
                      [NoPayload EXCEPT !.type = "ice", !.body = Candidate(1),
                                        !.recipient = "students",
                                        !.targetSocketId = rtc[k].targetSocketId])
    /\ calls' = Called("icecandidate")
    /\ UNCHANGED <<serverVars, rtc, pcs, pcEntry, localStream, tasks, arrived, inbox, handled,
                   linkVars>>

\* a suspended call of either manager goes on
TaskStep(t) ==
    \/ AddStudentStream(t)
    \/ AddStudentOffer(t)
    \/ AddStudentSend(t)
    \/ FlushStep(t)
    \/ TeacherAnswerApplied(t)
    \/ \E fulfilled \in BOOLEAN : StudentOfferApplied(t, fulfilled)
    \/ StudentAnswerCreated(t)
    \/ StudentAnswerSend(t)

NextClassroom ==
    \/ \E role \in Roles : ClientConnects(role)
    \/ \E sid \in AllSessionIds : SessionCreated(sid)
    \/ \E role \in Roles, sid \in AllSessionIds : ClientJoins(role, sid)
    \/ \E role \in Roles : ServerReceives(role)
    \/ \E role \in Roles : ClientReceives(role)
    \/ TeacherAddsStudent(StudentConn)
    \/ \E k \in 1..Len(rtc) : IceCandidate(k)
    \/ \E t \in Suspended :
          TaskStep(t) /\ UNCHANGED idle

InitClassroom ==
    InitServer({TeacherConn, StudentConn}, RouterSessions) /\ InitClient({StudentConn})

SpecClassroom == InitClassroom /\ [][NextClassroom]_vars

(***************************************************************************)
(* The teacher's manager over its whole life: one peer is added, its       *)
(* connection fails and is restarted, the page removes the peer            *)
(* (TeacherPage.tsx, peer-left) or closes the manager (webRtcTeacher.ts,   *)
(* stop), while calls, timers and restarts are still in flight.  The page  *)
(* adds the peer only before it has removed it or closed the manager, so   *)
(* that whatever appears afterwards comes from work that was in flight.    *)
(***************************************************************************)
MaxRemoves == 1    \* calls of removeStudent
MaxCloses == 1     \* calls of close

NextTeacherLife ==
    \/ \E t \in Targets :
          /\ calls["addStudent"] < MaxAddStudent
          /\ calls["removeStudent"] = 0 /\ calls["close"] = 0
          /\ AddStudent(t) /\ UNCHANGED idle
    \/ \E t \in Suspended :
          AddStudentStream(t) /\ UNCHANGED idle
    \/ \E t \in Suspended :
          AddStudentOffer(t) /\ UNCHANGED idle
    \/ \E t \in Suspended :
          AddStudentSend(t) /\ UNCHANGED idle
    \/ \E k \in 1..Len(rtc) :
          calls["failure"] < MaxFailures /\ TeacherConnectionFails(k) /\ UNCHANGED idle
    \/ \E t \in Suspended, fulfilled \in BOOLEAN :
          TeacherRestartOffer(t, fulfilled) /\ UNCHANGED idle
    \/ \E t \in Suspended :
          TeacherRestartSend(t) /\ UNCHANGED idle
    \/ \E t \in Suspended :
          TeacherRestartTimer(t) /\ UNCHANGED idle
    \/ \E t \in Suspended :
          TeacherRebuildTimer(t) /\ UNCHANGED idle
    \/ \E t \in Targets :
          calls["removeStudent"] < MaxRemoves /\ TeacherRemoveStudent(t) /\ UNCHANGED idle
    \/ calls["close"] < MaxCloses /\ TeacherClose /\ UNCHANGED idle

InitTeacherLife == InitServer({}, {}) /\ InitClient(RestartPeers)

SpecTeacherLife == InitTeacherLife /\ [][NextTeacherLife]_vars

(***************************************************************************)
(* The teacher's manager with two peers: every operation of the manager    *)
(* on either peer, in any interleaving.  lastOp.socketId remembers the     *)
(* peer that the step just taken concerns: the targetSocketId argument of  *)
(* the call, or of the call that the continuation or timer belongs to.     *)
(* The connections that report failed/disconnected are those of the first  *)
(* peer, the other peer negotiates meanwhile.                              *)
(***************************************************************************)
About(targetSocketId) ==
    /\ lastOp' = [lastOp EXCEPT !.op = "manager", !.socketId = targetSocketId]
    /\ UNCHANGED <<sessions, socketToSession, sockets, patches, lastAvatar, lastPhoto,
                   lastLandmarks, tried, inbox, handled, linkVars>>

MaxPairCalls == 6  \* calls and connection events of the two-peer specification

PairCalls ==
    calls["addStudent"] + calls["handleAnswer"] + calls["handleIce"]
        + calls["failure"] + calls["removeStudent"]

NextTeacherPair ==
    \/ \E p \in Targets :
          /\ PairCalls < MaxPairCalls /\ calls["addStudent"] < MaxAddStudent
          /\ AddStudent(p) /\ About(p)
    \/ \E t \in Suspended :
          AddStudentStream(t) /\ About(t.target)
    \/ \E t \in Suspended :
          AddStudentOffer(t) /\ About(t.target)
    \/ \E t \in Suspended :
          AddStudentSend(t) /\ About(t.target)
    \/ \E t \in Suspended :
          FlushStep(t) /\ About(t.target)
    \/ \E p \in Targets :
          /\ PairCalls < MaxPairCalls /\ calls["handleAnswer"] < MaxAnswers
          /\ TeacherHandleAnswer(p) /\ About(p)
    \/ \E t \in Suspended :
          TeacherAnswerApplied(t) /\ About(t.target)
    \/ \E p \in Targets :
          /\ PairCalls < MaxPairCalls /\ calls["handleIce"] < MaxIce
          /\ TeacherHandleIce(p, NextCandidate(p))
          /\ About(p)
    \/ \E k \in 1..Len(rtc) :
          /\ rtc[k].targetSocketId = ConnNames[2]
          /\ PairCalls < MaxPairCalls /\ calls["failure"] < MaxFailures
          /\ TeacherConnectionFails(k)
          /\ About(rtc[k].targetSocketId)
    \/ \E t \in Suspended, fulfilled \in BOOLEAN :
          TeacherRestartOffer(t, fulfilled) /\ About(t.target)
    \/ \E t \in Suspended :
          TeacherRestartSend(t) /\ About(t.target)
    \/ \E t \in Suspended :
          TeacherRestartTimer(t) /\ About(t.target)
    \/ \E t \in Suspended :
          TeacherRebuildTimer(t) /\ About(t.target)
    \/ \E p \in Targets :
          /\ PairCalls < MaxPairCalls /\ calls["removeStudent"] < MaxRemoves
          /\ TeacherRemoveStudent(p) /\ About(p)

InitTeacherPair == InitServer({}, {}) /\ InitClient(Students)

SpecTeacherPair == InitTeacherPair /\ [][NextTeacherPair]_vars

(***************************************************************************)
(* The late-join replay towards connections whose socket may have stopped  *)
(* taking messages: closed (readyState is not 1) or failing (ws.send       *)
(* throws).                                                                *)
(***************************************************************************)
NextReplayFails ==
    \/ \E c \in AllConns :
          Connect(c) /\ UNCHANGED wireVars
    \/ \E c \in AllConns, state \in {"closed", "throws"} :
          SocketFails(c, state) /\ UNCHANGED wireVars
    \/ \E sid \in AllSessionIds :
          CreateSession(sid, NoConn) /\ UNCHANGED wireVars
    \/ \E sid \in RouterSessions :
          CachePush(sid) /\ UNCHANGED wireVars
    \/ \E c \in AllConns, sid \in AllSessionIds, role \in Roles :
          HandleJoin(c, sid, role) /\ UNCHANGED wireVars
    \/ \E c \in AllConns, sid \in AllSessionIds \cup {NoField} :
          HandleRequestState(c, sid) /\ UNCHANGED wireVars

InitReplayFails == InitServer(Conns, RouterSessions) /\ InitClient({})

SpecReplayFails == InitReplayFails /\ [][NextReplayFails]_vars

(***************************************************************************)
(* Properties of the session registry (SpecRegistry).                      *)
(***************************************************************************)
IsMember(ss, sid, c) ==
    sid \in DOMAIN ss /\ (ss[sid].teacher = c \/ c \in ss[sid].students)

MemberSessions(ss, c) == {sid \in DOMAIN ss : IsMember(ss, sid, c)}

JoinDone == lastOp.op = "join" /\ ~lastOp.threw /\ ~lastOp.dropped

\* C1: every session has one teacher slot, holding one connection or null; the
\* connection in it is never in that session's student set; and right after a
\* join as teacher the joiner holds the slot and is not a student.
C1_SingleTeacher ==
    /\ \A sid \in DOMAIN sessions :
          /\ sessions[sid].teacher \in AllConns \cup {NoConn}
          /\ sessions[sid].teacher \notin sessions[sid].students
    /\ (JoinDone /\ lastOp.role = "teacher") =>
          /\ sessions[lastOp.sessionId].teacher = lastOp.socketId
          /\ lastOp.socketId \notin sessions[lastOp.sessionId].students

\* C1 witness: a student of the session has just joined it as teacher
C1_Witness ==
    /\ JoinDone /\ lastOp.role = "teacher"
    /\ lastOp.sessionId \in DOMAIN lastOp.before.sessions
    /\ lastOp.socketId \in lastOp.before.sessions[lastOp.sessionId].students
    /\ sessions[lastOp.sessionId].students # {}

\* C2: every connection is bound to at most one session, and no connection is
\* a member (teacher or student) of two sessions at once.
C2_ExclusiveMembership ==
    \A c \in AllConns :
        /\ socketToSession[c] \in AllSessionIds \cup {NoSession}
        /\ Cardinality(MemberSessions(sessions, c)) <= 1

\* C3: after every registry operation the registry holds no session with
\* teacher = null and an empty student set.
C3_NoEmptySession ==
    lastOp.op # "init" =>
        \A sid \in DOMAIN sessions : ~IsEmptySession(sessions[sid])

\* C10: a join with a valid session id and role succeeds whether or not the
\* session existed: afterwards the session is in the registry, the joiner is its
\* teacher or one of its students, and the members it had before are still there.
C10_JoinCreatesSession ==
    (lastOp.op = "join" /\ lastOp.sessionId # "" /\ lastOp.role \in Roles) =>
        /\ ~lastOp.threw
        /\ IsMember(sessions, lastOp.sessionId, lastOp.socketId)
        /\ socketToSession[lastOp.socketId] = lastOp.sessionId
        /\ \A c \in AllConns \ {lastOp.socketId} :
              (lastOp.sessionId \in DOMAIN lastOp.before.sessions
                  /\ c \in lastOp.before.sessions[lastOp.sessionId].students)
              => c \in sessions[lastOp.sessionId].students

(***************************************************************************)
(* Properties of the signaling router (SpecRouter).                        *)
(***************************************************************************)
Routed == lastOp.op = "signal" /\ ~lastOp.dropped

TargetAndRecipient ==
    /\ Routed
    /\ lastOp.payload.targetSocketId # NoField
    /\ lastOp.payload.recipient # NoField

\* C4 as claimed: a routed message with both targetSocketId and recipient is
\* delivered exactly once to the connection targetSocketId names, and to no
\* other connection.
C4_OneCopyToTarget ==
    TargetAndRecipient =>
        \A c \in AllConns :
            Len(Delivered(c)) = (IF c = lastOp.payload.targetSocketId THEN 1 ELSE 0)

\* C4 as amended: a routed message with both targetSocketId and recipient is
\* handed to sendTo exactly once, for targetSocketId, as the payload with from
\* set to the sender; it is delivered (once) exactly when that connection is
\* registered and open, and no connection the recipient class selects gets a
\* copy unless it is the target.
C4_TargetOnly ==
    TargetAndRecipient =>
        \A c \in AllConns :
            IF c = lastOp.payload.targetSocketId
            THEN /\ tried[c] = << Envelope("/signal",
                                     [lastOp.payload EXCEPT !.from = lastOp.socketId],
                                     NoField) >>
                 /\ Len(Delivered(c)) = (IF sockets[c] = "open" THEN 1 ELSE 0)
            ELSE tried[c] = << >> /\ Delivered(c) = << >>

\* C4 witness: the target is an open connection outside the recipient class,
\* and the class has a member that gets nothing
C4_Witness ==
    /\ TargetAndRecipient
    /\ lastOp.payload.recipient = "students"
    /\ LET s == sessions[socketToSession[lastOp.socketId]]
           t == lastOp.payload.targetSocketId
       IN  /\ sockets[t] = "open"
           /\ t \notin s.students
           /\ \E c \in s.students : c # t /\ sockets[c] = "open" /\ Delivered(c) = << >>
           /\ Len(Delivered(t)) = 1

\* the sessions in which connection c holds the teacher slot while some other
\* connection is a student
TaughtWithStudents(ss, c) ==
    {sid \in DOMAIN ss : ss[sid].teacher = c /\ ss[sid].students \ {c} # {}}

\* C9: when the teacher of a session that still has a student disconnects, the
\* unbind reports the session as changed and not as deleted, and the session
\* stays in the registry with teacher = null and its students; a message with
\* recipient teacher and no targetSocketId from a student of a session without
\* teacher is handed to nobody, and routing it changes neither the registry,
\* the bindings, the connections nor the cache.
C9_TeacherGone ==
    /\ [](lastOp.op \in {"close", "removeSocket"} =>
            \A sid \in TaughtWithStudents(lastOp.before.sessions, lastOp.socketId) :
                /\ sid \in lastOp.updatedSessions
                /\ sid \notin lastOp.removedSessions
                /\ sid \in DOMAIN sessions
                /\ sessions[sid].teacher = NoConn
                /\ sessions[sid].students = lastOp.before.sessions[sid].students)
    /\ []((/\ Routed
           /\ lastOp.payload.recipient = "teacher"
           /\ lastOp.payload.targetSocketId = NoField
           /\ sessions[socketToSession[lastOp.socketId]].teacher = NoConn)
          => tried = NoSends /\ \A c \in AllConns : Delivered(c) = << >>)
    /\ [][lastOp'.op = "signal" => UNCHANGED <<regVars, sockets, cacheVars>>]_vars

\* C9 witness: the teacher has gone, and the student it left behind has just
\* sent a message for the teacher
C9_Witness ==
    /\ Routed
    /\ lastOp.payload.recipient = "teacher"
    /\ lastOp.payload.targetSocketId = NoField
    /\ LET s == sessions[socketToSession[lastOp.socketId]]
       IN  /\ s.teacher = NoConn
           /\ lastOp.socketId \in s.students
    /\ tried = NoSends

(***************************************************************************)
(* Properties of the late-join replay (SpecReplay).                        *)
(***************************************************************************)
StudentJoined == JoinDone /\ lastOp.role = "student"

IsCacheEnvelope(e) == e.channel \in {"/board", "/avatar"}

\* what the last operation handed to connection c from the cache
FromCache(c) == SelectSeq(tried[c], IsCacheEnvelope)

Present(item) == IF item = NoField THEN 0 ELSE 1

\* C7: a connection that has joined as student is sent every cached board patch
\* in cache order, then the cached pose if there is one, then the cached photo
\* if there is one, then the cached landmarks if there are any, each once, and
\* nothing else from the cache; no other connection is sent anything from it.
C7_ReplayOrder ==
    StudentJoined =>
        LET sid == lastOp.sessionId
            r == FromCache(lastOp.socketId)
            n == Len(patches[sid])
            a == Present(lastAvatar[sid])
            f == Present(lastPhoto[sid])
            l == Present(lastLandmarks[sid])
        IN  /\ Len(r) = n + a + f + l
            /\ \A i \in 1..n :
                  /\ r[i].channel = "/board"
                  /\ r[i].payload.type = "patch"
                  /\ r[i].payload.body = patches[sid][i]
            /\ a = 1 => r[n + 1].payload.type = "pose"
                        /\ r[n + 1].payload.body = lastAvatar[sid]
            /\ f = 1 => r[n + a + 1].payload.type = "photo"
                        /\ r[n + a + 1].payload.body = lastPhoto[sid]
            /\ l = 1 => r[n + a + f + 1].payload.type = "landmarks"
                        /\ r[n + a + f + 1].payload.body = lastLandmarks[sid]
            /\ \A i \in (n + 1)..Len(r) : r[i].channel = "/avatar"
            /\ \A c \in AllConns \ {lastOp.socketId} : FromCache(c) = << >>

\* C7 witness: a student joins a session that has two patches, a pose, a photo
\* and landmarks cached, and is sent all five
C7_Witness ==
    /\ StudentJoined
    /\ Len(patches[lastOp.sessionId]) = MaxPatches
    /\ patches[lastOp.sessionId][1] # patches[lastOp.sessionId][2]
    /\ lastAvatar[lastOp.sessionId] # NoField
    /\ lastPhoto[lastOp.sessionId] # NoField
    /\ lastLandmarks[lastOp.sessionId] # NoField
    /\ Len(Delivered(lastOp.socketId)) >= MaxPatches + 3

(***************************************************************************)
(* Properties of the audio managers (SpecTeacher, SpecStudent).            *)
(***************************************************************************)
Quiescent == tasks = EmptyBag

\* the candidates that arrived while connection k existed and had no applied
\* remote description, in their order of arrival
Early(k) ==
    LET a == SelectSeq(arrived, LAMBDA x : k \in x.undescribed)
    IN  [i \in 1..Len(a) |-> a[i].candidate]

\* what pc.addIceCandidate was called with on connection k, in order
Added(k) == [i \in 1..Len(rtc[k].added) |-> rtc[k].added[i].candidate]

InSeq(x, q) == \E i \in 1..Len(q) : q[i] = x

\* C5: no candidate is given to a connection before its remote description,
\* and once every call has run to its end, a connection whose remote
\* description is applied has been given the candidates that arrived before
\* that, each once and in the order in which they arrived.
C5_IceOrder ==
    /\ \A k \in 1..Len(rtc) : \A i \in 1..Len(rtc[k].added) : rtc[k].added[i].described
    /\ Quiescent =>
          \A k \in 1..Len(rtc) :
              (rtc[k].remoteDescription = "set" /\ ~rtc[k].closed) =>
                  SelectSeq(Added(k), LAMBDA c : InSeq(c, Early(k))) = Early(k)

\* C6: on the teacher, pc.addIceCandidate is never called for a peer's
\* candidate before that peer's answer is the connection's remote description
\* (applied, or being applied); until then the candidate stays in the queue.
C6_NoIceBeforeAnswer ==
    \A k \in 1..Len(rtc) :
        /\ \A i \in 1..Len(rtc[k].added) : rtc[k].added[i].described
        /\ rtc[k].remoteDescription = NoField => rtc[k].added = << >>

(***************************************************************************)
(* Properties of the classroom (SpecClassroom).                            *)
(***************************************************************************)
\* the server has handled the join of the one role before the join of the other
JoinedBefore(first, second) ==
    \E i, j \in 1..Len(handled) :
        /\ i < j
        /\ handled[i] = [from |-> ConnOf(first), payload |-> joinMessage("abc123", first)]
        /\ handled[j] = [from |-> ConnOf(second), payload |-> joinMessage("abc123", second)]

Settled ==
    /\ \A role \in Roles : outbox[role] = << >>
    /\ \A c \in DOMAIN inbox : inbox[c] = << >>
    /\ Quiescent

\* C8: from an empty registry, once the teacher and then the student have
\* joined "abc123", the teacher has called addStudent for the student, and
\* every message has been delivered and every call has run to its end, the
\* teacher has an entry for the student, the student has an entry for the
\* teacher, and the student's answer is the remote description of the
\* teacher's entry.
C8_Classroom ==
    (/\ JoinedBefore("teacher", "student")
     /\ calls["addStudent"] > 0
     /\ Settled)
    => /\ pcs[StudentConn] # 0
       /\ pcEntry # 0
       /\ rtc[pcs[StudentConn]].remoteDescription = "set"

(***************************************************************************)
(* Re-joining (SpecRegistryPair).                                          *)
(***************************************************************************)
\* the join that has just run repeats the one before it
SameJoinAgain ==
    /\ JoinDone
    /\ lastOp'.op = "join" /\ ~lastOp'.threw /\ ~lastOp'.dropped
    /\ lastOp'.sessionId = lastOp.sessionId
    /\ lastOp'.socketId = lastOp.socketId
    /\ lastOp'.role = lastOp.role

\* a join as student, by the connection in the session's teacher slot, has run
StudentJoinByTeacher ==
    /\ lastOp'.op = "join" /\ ~lastOp'.threw /\ ~lastOp'.dropped
    /\ lastOp'.role = "student"
    /\ lastOp'.sessionId \in DOMAIN sessions
    /\ sessions[lastOp'.sessionId].teacher = lastOp'.socketId

\* C11: a join as teacher that repeats the join before it changes neither the
\* registry nor the bindings; a join as student by the connection that holds
\* the session's teacher slot leaves that session's teacher slot and student
\* set as they were.
C11_RejoinIdempotent ==
    /\ [][(SameJoinAgain /\ lastOp.role = "teacher") => UNCHANGED regVars]_vars
    /\ [][StudentJoinByTeacher =>
            /\ lastOp'.sessionId \in DOMAIN sessions'
            /\ sessions'[lastOp'.sessionId] = sessions[lastOp'.sessionId]]_vars

(***************************************************************************)
(* Unbinding (SpecRegistryPair).                                           *)
(***************************************************************************)
\* the members of session s other than connection c
OtherMembers(s, c) ==
    (s.students \cup (IF s.teacher = NoConn THEN {} ELSE {s.teacher})) \ {c}

\* C12: removeSocket(c) leaves c in no teacher slot and no student set and
\* without binding; the sessions it reports as removed are exactly those c
\* was the only member of, and they are gone; the sessions it reports as
\* updated are exactly those that had c and another member, and they keep
\* their other members; sessions without c are untouched, and so are the
\* bindings of other connections; for a connection that is unbound and in no
\* session both lists are empty and nothing changes.
C12_Unbind ==
    /\ [](lastOp.op = "removeSocket" =>
            LET c == lastOp.socketId
                b == lastOp.before.sessions
                had == MemberSessions(b, c)
            IN  /\ MemberSessions(sessions, c) = {}
                /\ socketToSession[c] = NoSession
                /\ lastOp.removedSessions = {sid \in had : OtherMembers(b[sid], c) = {}}
                /\ lastOp.updatedSessions = {sid \in had : OtherMembers(b[sid], c) # {}}
                /\ DOMAIN sessions = DOMAIN b \ lastOp.removedSessions
                /\ \A sid \in lastOp.updatedSessions :
                      /\ sessions[sid].students = b[sid].students \ {c}
                      /\ sessions[sid].teacher =
                            (IF b[sid].teacher = c THEN NoConn ELSE b[sid].teacher)
                /\ \A sid \in DOMAIN b \ had : sessions[sid] = b[sid]
                /\ had = {} => lastOp.removedSessions = {} /\ lastOp.updatedSessions = {})
    /\ [][lastOp'.op = "removeSocket" =>
            /\ \A d \in AllConns \ {lastOp'.socketId} :
                  socketToSession'[d] = socketToSession[d]
            /\ UNCHANGED <<sockets, cacheVars>>
            /\ (/\ MemberSessions(sessions, lastOp'.socketId) = {}
                /\ socketToSession[lastOp'.socketId] = NoSession)
               => UNCHANGED regVars]_vars

\* C12 witness: the connection was the only member of one session and had
\* company in another
C12_Witness ==
    /\ lastOp.op = "removeSocket"
    /\ lastOp.removedSessions # {}
    /\ lastOp.updatedSessions # {}
    /\ \E sid \in lastOp.updatedSessions :
          lastOp.before.sessions[sid].teacher = lastOp.socketId

(***************************************************************************)
(* Properties of the send registry (SpecSend).                             *)
(***************************************************************************)
\* C13: sendTo does not throw; it returns false when the target is not
\* registered, when its handle is not open and when the handle's send throws;
\* and when it returns true the message was handed to an open handle.
C13_SendToResult ==
    lastOp.op = "sendTo" =>
        /\ ~lastOp.threw
        /\ sockets[lastOp.socketId] \in {"none", "closed", "throws"} => ~lastOp.returned
        /\ lastOp.returned =>
              /\ sockets[lastOp.socketId] = "open"
              /\ Len(Delivered(lastOp.socketId)) = 1

(***************************************************************************)
(* Join notifications (SpecRouter).                                        *)
(***************************************************************************)
IsPeerJoined(e) == e.channel = "/signal" /\ e.payload.type = "peer-joined"

\* the peer-joined events the last operation passed to sendTo for connection c
PeerJoined(c) == SelectSeq(tried[c], IsPeerJoined)

\* the role group opposite to role in session s
OppositeGroup(s, role) ==
    IF role = "teacher" THEN s.students
    ELSE IF s.teacher = NoConn THEN {} ELSE {s.teacher}

\* C14: after a successful join, each connection of the opposite role group of
\* the session (its students for a joining teacher, its teacher if it has one
\* for a joining student) was sent exactly one peer-joined event, carrying the
\* joiner's identity in from and its role, and every open one of them got it;
\* no other connection was sent a peer-joined event.
C14_PeerJoined ==
    JoinDone =>
        LET group == OppositeGroup(sessions[lastOp.sessionId], lastOp.role)
        IN  \A c \in AllConns :
                IF c \in group
                THEN /\ Len(PeerJoined(c)) = 1
                     /\ PeerJoined(c)[1].payload.from = lastOp.socketId
                     /\ PeerJoined(c)[1].payload.role = lastOp.role
                     /\ sockets[c] = "open" => Len(SelectSeq(Delivered(c), IsPeerJoined)) = 1
                ELSE PeerJoined(c) = << >>

\* C14 witness: a teacher has joined a session that has a student, and the
\* student got the event
C14_Witness ==
    /\ JoinDone /\ lastOp.role = "teacher"
    /\ \E c \in sessions[lastOp.sessionId].students :
          /\ c # lastOp.socketId
          /\ Len(SelectSeq(Delivered(c), IsPeerJoined)) = 1
    /\ PeerJoined(lastOp.socketId) = << >>

(***************************************************************************)
(* request-state (SpecRequestState).                                       *)
(***************************************************************************)
\* the bodies of what the last operation handed to connection c from the cache
CacheBodies(c) == [i \in 1..Len(FromCache(c)) |-> FromCache(c)[i].payload.body]

\* what a session's cache holds, in replay order
Cached(sid) ==
    patches[sid]
        \o (IF lastAvatar[sid] = NoField THEN << >> ELSE << lastAvatar[sid] >>)
        \o (IF lastPhoto[sid] = NoField THEN << >> ELSE << lastPhoto[sid] >>)
        \o (IF lastLandmarks[sid] = NoField THEN << >> ELSE << lastLandmarks[sid] >>)

\* C15: a request-state is answered to the requester only, teacher or student:
\* every other connection is sent nothing; with a sessionId the requester is
\* sent the cache of that session, without one the cache of the session it is
\* bound to, and without one and unbound nothing at all.
C15_RequestState ==
    lastOp.op = "request-state" =>
        LET c == lastOp.socketId
            bound == socketToSession[c]
        IN  /\ \A d \in AllConns \ {c} : tried[d] = << >>
            /\ tried[c] = FromCache(c)
            /\ IF lastOp.sessionId # NoField
               THEN CacheBodies(c) = Cached(lastOp.sessionId)
               ELSE IF bound # NoSession
               THEN CacheBodies(c) = Cached(bound)
               ELSE tried[c] = << >>

\* C15 witness: the teacher of the second session asks without a sessionId
\* and is sent that session's cache, which differs from the first session's
C15_Witness ==
    /\ lastOp.op = "request-state"
    /\ lastOp.sessionId = NoField
    /\ socketToSession[lastOp.socketId] = SessionNames[2]
    /\ sessions[SessionNames[2]].teacher = lastOp.socketId
    /\ Cached(SessionNames[2]) # << >>
    /\ Cached(SessionNames[1]) # << >>
    /\ Cached(SessionNames[1]) # Cached(SessionNames[2])
    /\ [i \in 1..Len(Delivered(lastOp.socketId)) |->
           Delivered(lastOp.socketId)[i].payload.body] = Cached(SessionNames[2])

(***************************************************************************)
(* Addressing by recipient class and by default (SpecClassRouter).         *)
(***************************************************************************)
\* a routed message without targetSocketId whose recipient is teacher,
\* students or absent
ByClass ==
    /\ Routed
    /\ lastOp.payload.targetSocketId = NoField
    /\ lastOp.payload.recipient \in {"teacher", "students", NoField}

TeacherOf(s) == IF s.teacher = NoConn THEN {} ELSE {s.teacher}

\* the connections the claim names for the message that was routed last
Addressees ==
    LET s == sessions[socketToSession[lastOp.socketId]]
        r == lastOp.payload.recipient
    IN  IF r = "teacher" THEN TeacherOf(s)
        ELSE IF r = "students" THEN s.students
        ELSE IF s.teacher = lastOp.socketId THEN s.students
        ELSE TeacherOf(s)

\* C16 as claimed: a routed message without targetSocketId is delivered once
\* to the session's teacher (recipient teacher; to nobody if there is none),
\* once to each student of the session (recipient students), and without
\* recipient once to each student if the sender is the teacher and once to the
\* teacher otherwise; no other connection gets a copy.
C16_OneCopyEach ==
    ByClass =>
        \A c \in AllConns :
            Len(Delivered(c)) = (IF c \in Addressees THEN 1 ELSE 0)

\* C16 as amended: the message, with from set to the sender, is handed to
\* sendTo exactly once for each of those connections and for no other; each
\* of them gets one copy exactly when its handle is registered and open.
C16_Addressing ==
    ByClass =>
        \A c \in AllConns :
            IF c \in Addressees
            THEN /\ tried[c] = << Envelope("/signal",
                                     [lastOp.payload EXCEPT !.from = lastOp.socketId],
                                     NoField) >>
                 /\ Len(Delivered(c)) = (IF sockets[c] = "open" THEN 1 ELSE 0)
            ELSE tried[c] = << >> /\ Delivered(c) = << >>

\* C16 witness: the teacher sends a message without any addressing and its
\* student gets one copy, the teacher none
C16_Witness ==
    /\ ByClass
    /\ lastOp.payload.recipient = NoField
    /\ LET s == sessions[socketToSession[lastOp.socketId]]
       IN  /\ s.teacher = lastOp.socketId
           /\ s.students # {}
           /\ \A c \in s.students : Len(Delivered(c)) = 1
    /\ Delivered(lastOp.socketId) = << >>

(***************************************************************************)
(* The sender's identity on forwarded messages (SpecRouter).               *)
(***************************************************************************)
\* C17: every copy the router forwards of a negotiation message is a /signal
\* envelope whose payload is the inbound payload with from replaced by the
\* identity of the connection that sent it, whatever from the inbound payload
\* carried.
C17_FromIsSender ==
    Routed =>
        \A c \in AllConns : \A i \in 1..Len(tried[c]) :
            /\ tried[c][i].channel = "/signal"
            /\ tried[c][i].payload.from = lastOp.socketId
            /\ tried[c][i].payload = [lastOp.payload EXCEPT !.from = lastOp.socketId]

\* C17 witness: a payload that names another connection in from is forwarded
\* and delivered with the sender's identity
C17_Witness ==
    /\ Routed
    /\ lastOp.payload.from # NoField
    /\ lastOp.payload.from # lastOp.socketId
    /\ \E c \in AllConns :
          /\ Len(Delivered(c)) = 1
          /\ Delivered(c)[1].payload.from = lastOp.socketId

(***************************************************************************)
(* Malformed and unroutable messages (SpecRouter).                         *)
(***************************************************************************)
\* the message handled in this step is a join without a string sessionId or
\* with a role that is neither teacher nor student
BadJoinStep ==
    /\ lastOp'.op = "join"
    /\ lastOp'.sessionId \in NonStrings \/ lastOp'.role \notin Roles

\* the message handled in this step is a negotiation message from a
\* connection that is bound to no session
UnboundSignalStep ==
    /\ lastOp'.op = "signal"
    /\ socketToSession[lastOp'.socketId] = NoSession

\* the message handled in this step is a join with a valid sessionId and role
\* for a session that exists
GoodJoinStep ==
    /\ lastOp'.op = "join"
    /\ lastOp'.sessionId \in DOMAIN sessions
    /\ lastOp'.role \in Roles

\* C18: a join without a string sessionId or with a role other than teacher
\* and student, and a negotiation message from an unbound connection, change
\* neither the registry, the bindings, the connections nor the cache, and
\* nothing is sent to any connection; the router does not stop: the message it
\* handles next after such a drop is handled as usual, a valid join making
\* the joiner a member bound to the session.
C18_Dropped ==
    /\ [][(BadJoinStep \/ UnboundSignalStep) =>
            /\ UNCHANGED <<regVars, sockets, cacheVars>>
            /\ lastOp'.dropped /\ ~lastOp'.threw
            /\ tried' = NoSends]_vars
    /\ [](lastOp.dropped => \A c \in AllConns : Delivered(c) = << >>)
    /\ [][(lastOp.dropped /\ GoodJoinStep) =>
            /\ ~lastOp'.dropped /\ ~lastOp'.threw
            /\ IsMember(sessions', lastOp'.sessionId, lastOp'.socketId)
            /\ socketToSession'[lastOp'.socketId] = lastOp'.sessionId]_vars

\* C18 witness: a member of a session that has another member sends a join
\* with a bad role, and nothing is sent and it stays what it was
C18_Witness ==
    /\ lastOp.op = "join" /\ lastOp.dropped
    /\ lastOp.role \notin Roles
    /\ lastOp.sessionId \in DOMAIN sessions
    /\ sessions[lastOp.sessionId].teacher \notin {NoConn, lastOp.socketId}
    /\ lastOp.socketId \in sessions[lastOp.sessionId].students
    /\ sockets[sessions[lastOp.sessionId].teacher] = "open"
    /\ tried = NoSends

(***************************************************************************)
(* Properties of the failure handling (SpecTeacherRestart,                 *)
(* SpecStudentRestart).                                                    *)
(***************************************************************************)
\* C19: no connection of the teacher has more than three restart offers sent
\* for it; an entry is discarded only once its counter has passed three; and
\* the connection of a discarded entry is closed.
C19_RestartEscalation ==
    \A k \in 1..Len(rtc) :
        /\ rtc[k].restarts <= 3
        /\ rtc[k].discarded => rtc[k].restartAttempts > 3
        /\ rtc[k].discarded => rtc[k].closed

\* C20: no connection of the student has more than three restart offers sent
\* for it, and the connection of an entry that attemptRestart has discarded is
\* closed.
C20_StudentEscalation ==
    \A k \in 1..Len(rtc) :
        /\ rtc[k].restarts <= 3
        /\ rtc[k].discarded => rtc[k].closed


(***************************************************************************)
(* C21: once removeStudent(target) has run on the teacher, and the page    *)
(* has not added the peer again, nothing that was in flight for the peer   *)
(* creates a connection, inserts an entry or sends an offer for it.        *)
(* Refuted: removeStudent returns at once when the peer has no entry       *)
(* (line 217), which is the case while addStudent awaits the local stream  *)
(* and while the timer of line 229 is pending.                             *)
(***************************************************************************)
C21_RemovedStaysQuiet ==
    [][calls'["removeStudent"] > 0
          => /\ Len(rtc') = Len(rtc)
             /\ \A t \in Targets : pcs'[t] = 0
             /\ outbox'["teacher"] = outbox["teacher"]]_vars


(***************************************************************************)
(* C22: however often addStudent(target) is called without a removal, also *)
(* while an earlier call for the target is in progress, the target has one *)
(* peer connection and one initial offer.                                  *)
(* Refuted: the test pcs.has(target) of line 141 comes before the await of *)
(* the local stream and the entry is inserted after it (179-184), so two   *)
(* calls made while the stream is being acquired both pass the test.       *)
(***************************************************************************)
C22_AddedOnce ==
    \A t \in Targets :
       /\ Cardinality({k \in 1..Len(rtc) : rtc[k].targetSocketId = t}) <= 1
       /\ Cardinality({i \in 1..Len(outbox["teacher"]) :
              outbox["teacher"][i] = sdpMessage("offer", "students", t)}) <= 1


(***************************************************************************)
(* C23: until close(), the teacher's manager acquires the local audio      *)
(* source at most once, whatever addStudent calls run or overlap; removing *)
(* a single peer never releases the source, only close() does.             *)
(* Refuted in its first part: ensureLocalStream (133-138) tests            *)
(* this.localStream before the await and assigns it after, so every        *)
(* addStudent call made while the source is being acquired acquires it     *)
(* again.  The acquisitions made so far are those still awaited and the    *)
(* one whose stream is held.                                               *)
(***************************************************************************)
C23_Acquiring == {t \in Suspended : t.fn = "addStudent" /\ t.at = "getLocalStream"}

C23_OneSource ==
    /\ [](calls["close"] = 0 =>
            /\ \A t \in C23_Acquiring : tasks[t] = 1
            /\ Cardinality(C23_Acquiring) + (IF localStream = "stream" THEN 1 ELSE 0) <= 1)
    /\ [][calls'["removeStudent"] # calls["removeStudent"] => localStream' = localStream]_vars
    /\ [][localStream = "stream" /\ localStream' = "null"
             => calls'["close"] = calls["close"] + 1]_vars


(***************************************************************************)
(* C24: once close() has run on the teacher's manager, and until the page  *)
(* calls addStudent again, the manager holds no entry and no local stream  *)
(* and every connection it created is closed, also when an addStudent, a   *)
(* restart or a recreate was in flight when close() was called.            *)
(* Refuted: close() (275-284) closes the connections of the entries it     *)
(* finds and cancels nothing, so an addStudent awaiting the local stream   *)
(* and the timer of line 229 build a new entry afterwards, and a           *)
(* connection that attemptRestart discarded (228) is never closed.         *)
(***************************************************************************)
C24_ClosedStaysClosed ==
    calls["close"] > 0 =>
       /\ \A t \in Targets : pcs[t] = 0
       /\ localStream = "null"
       /\ \A k \in 1..Len(rtc) : rtc[k].closed


(***************************************************************************)
(* C25: the student's manager never holds more than one peer connection    *)
(* that is not closed, also when a second offer arrives while the first is *)
(* still being handled.                                                    *)
(* Refuted: handleOffer closes this.pcEntry (303-306), which is assigned   *)
(* only at the end of the handling (354-359); a second offer arriving      *)
(* before that finds no entry and leaves the first connection open.        *)
(***************************************************************************)
C25_OneOpenConnection ==
    Cardinality({k \in 1..Len(rtc) : ~rtc[k].closed}) <= 1


(***************************************************************************)
(* C26: a candidate handed to the student's handleIce once an offer has    *)
(* arrived is never discarded: it is queued while the remote description   *)
(* of the offer is not applied yet and given to the connection at once     *)
(* afterwards.                                                             *)
(* Refuted: handleIce (362-364) does nothing while this.pcEntry is unset,  *)
(* which is so from the arrival of the offer until the end of its          *)
(* handling (354-359), before and after the description is applied.        *)
(***************************************************************************)
C26_Kept(e, c) ==
    \/ \E i \in 1..Len(e.queuedIce) : e.queuedIce[i] = c
    \/ \E i \in 1..Len(e.added) : e.added[i].candidate = c

C26_NoneDiscarded ==
    [][(/\ calls'["handleIce"] # calls["handleIce"]
        /\ \E k \in 1..Len(rtc) : ~rtc[k].closed)
       => (\E k \in 1..Len(rtc') :
             /\ ~rtc'[k].closed
             /\ C26_Kept(rtc'[k], arrived'[Len(arrived')].candidate)
             /\ (rtc[k].remoteDescription = "set"
                   => ~InSeq(arrived'[Len(arrived')].candidate, rtc'[k].queuedIce)))]_vars


(***************************************************************************)
(* C27: on the teacher, a step that concerns one peer (addStudent,         *)
(* handleAnswer, handleIce, removeStudent, a connection failure, an ICE    *)
(* restart and its retries, a recreate, a rejected negotiation step)       *)
(* leaves every other peer's entry, its connections with their candidate   *)
(* queue and attempt counter, and its pending negotiation steps as they    *)
(* were, so the other peer's steps go on.                                  *)
(***************************************************************************)
C27_Peer(b) ==
    [entry |-> pcs[b],
     connections |-> [k \in {i \in 1..Len(rtc) : rtc[i].targetSocketId = b} |-> rtc[k]],
     pending |-> [t \in {u \in Suspended : u.target = b} |-> tasks[t]]]

C27_PeersIndependent ==
    [][\A b \in Targets : b # lastOp'.socketId => C27_Peer(b)' = C27_Peer(b)]_vars

\* the first peer's connection was discarded after its restarts and built
\* again while the other peer, added meanwhile, is still negotiating
C27_Witness ==
    \E a, b \in Targets :
       /\ a # b /\ lastOp.socketId = a
       /\ \E k \in 1..Len(rtc) : rtc[k].targetSocketId = a /\ rtc[k].discarded
       /\ pcs[a] # 0 /\ ~rtc[pcs[a]].discarded
       /\ pcs[b] # 0 /\ ~rtc[pcs[b]].closed
       /\ \E t \in Suspended : t.target = b


(***************************************************************************)
(* C28: in the replay of handleJoin and of handleRequestState every step   *)
(* stands alone: when the sends to the target fail (its socket is closed   *)
(* or its send throws), the handler still runs to its end and still hands  *)
(* every cached patch, then the pose, the photo and the landmarks to       *)
(* sendTo, none of which is delivered.                                     *)
(***************************************************************************)
C28_Replayed ==
    \/ StudentJoined
    \/ lastOp.op = "request-state" /\ ~lastOp.dropped

C28_Session ==
    IF lastOp.sessionId # NoField THEN lastOp.sessionId
    ELSE getSessionForSocket(socketToSession, lastOp.socketId)

C28_StepsIndependent ==
    (C28_Replayed /\ ~safeSendDelivers(sockets[lastOp.socketId])) =>
        LET sid == C28_Session
            r == FromCache(lastOp.socketId)
            n == Len(patches[sid])
            a == Present(lastAvatar[sid])
            f == Present(lastPhoto[sid])
            l == Present(lastLandmarks[sid])
        IN  /\ ~lastOp.threw
            /\ Len(r) = n + a + f + l
            /\ \A i \in 1..n : r[i].payload.type = "patch"
            /\ a = 1 => r[n + 1].payload.type = "pose"
            /\ f = 1 => r[n + a + 1].payload.type = "photo"
            /\ l = 1 => r[n + a + f + 1].payload.type = "landmarks"
            /\ Delivered(lastOp.socketId) = << >>

\* the replay of a full cache to a connection whose socket fails
C28_Witness ==
    /\ C28_Replayed
    /\ sockets[lastOp.socketId] \in {"closed", "throws"}
    /\ Len(patches[C28_Session]) = MaxPatches
    /\ lastAvatar[C28_Session] # NoField
    /\ lastPhoto[C28_Session] # NoField
    /\ lastLandmarks[C28_Session] # NoField
    /\ Len(tried[lastOp.socketId]) = MaxPatches + 3


(***************************************************************************)
(* C29: whenever a failed ICE restart sets its retry timer, on the teacher *)
(* and on the student, the delay is the number of attempts made on the     *)
(* connection times a positive base, and so never zero.                    *)
(* Refuted on the student: its attemptRestart never increments             *)
(* restartAttempts, so 1000 * ent.restartAttempts (384) is 0 every time.   *)
(***************************************************************************)
C29_TimerSet(t) ==
    /\ t.fn = "attemptRestart" /\ t.at = "timer"
    /\ t \in BagToSet(tasks')
    /\ t \notin Suspended \/ tasks'[t] > tasks[t]

C29_RetryDelayGrows ==
    [][\A t \in BagToSet(tasks') :
          C29_TimerSet(t) =>
             /\ retryDelay(rtc'[t.pc]) >= RetryBase
             /\ \E k \in 1..(MaxRestartAttempts + MaxFailures) :
                   /\ rtc'[t.pc].restartAttempts = k
                   /\ retryDelay(rtc'[t.pc]) = k * RetryBase]_vars


(***************************************************************************)
(* C30: when a client takes a /signal envelope that the router forwarded,  *)
(* the message it hands to the subscribers carries in its from field the   *)
(* sender that the router put into the payload.                            *)
(* Refuted: socket.ts line 69 builds the message as                        *)
(* Object.assign({}, payload, { from: data.from }), and the router's       *)
(* envelope has no from of its own, so the payload's from is overwritten   *)
(* with undefined.                                                         *)
(***************************************************************************)
C30_Taken(c) ==
    /\ inbox[c] # << >>
    /\ inbox'[c] = Tail(inbox[c])
    /\ Head(inbox[c]).channel = "/signal"
    /\ Head(inbox[c]).payload.from \in AllConns

C30_FromKept ==
    [][\A c \in DOMAIN inbox :
          C30_Taken(c) => onmessage(Head(inbox[c])).from = Head(inbox[c]).payload.from]_vars


(***************************************************************************)
(* C31: a routed negotiation message is delivered only to connections that *)
(* are the teacher or a student of the session its sender is bound to,     *)
(* whatever targetSocketId and recipient it carries.                       *)
(* Refuted: with a targetSocketId the router calls                         *)
(* registry.sendTo(p.targetSocketId, out) (part_001 56-59) for any         *)
(* registered connection, member of the session or not.                    *)
(***************************************************************************)
C31_SessionIsolation ==
    Routed =>
        \A c \in AllConns :
            Delivered(c) # << >> =>
                IsMember(sessions, getSessionForSocket(socketToSession, lastOp.socketId), c)


(***************************************************************************)
(* C32: at every instant a connection is bound to a session exactly when   *)
(* it is that session's teacher or one of its students, and every binding  *)
(* names a session that exists.                                            *)
(* Refuted: a join as teacher overwrites the teacher slot (inMemory.ts     *)
(* 53-55) and join() leaves the binding of the connection it displaces in  *)
(* place.                                                                  *)
(***************************************************************************)
C32_BoundIffMember ==
    \A c \in AllConns :
        /\ \A sid \in AllSessionIds :
              socketToSession[c] = sid <=> IsMember(sessions, sid, c)
        /\ socketToSession[c] # NoSession => socketToSession[c] \in DOMAIN sessions


(***************************************************************************)
(* C33: a request-state delivers the cached patches, pose, photo and       *)
(* landmarks of a session only to a connection that is the teacher or a    *)
(* student of that session at that time, also when the request names the   *)
(* session itself.                                                         *)
(* Refuted: handleRequestState takes payload.sessionId when it is a string *)
(* (part_001 206-209) and reads that session's cache without looking at    *)
(* the requester's binding or at the session's members.                    *)
(***************************************************************************)
C33_CacheForMembersOnly ==
    lastOp.op = "request-state" =>
        LET c == lastOp.socketId
            sid == IF lastOp.sessionId # NoField THEN lastOp.sessionId
                   ELSE getSessionForSocket(socketToSession, c)
        IN  SelectSeq(Delivered(c), IsCacheEnvelope) # << >> => IsMember(sessions, sid, c)


(***************************************************************************)
(* C34: a connection is given the candidates of its peer in the order in   *)
(* which they arrived, also when one arrives while the queue is being      *)
(* flushed.  The candidates of a peer are numbered by arrival.             *)
(* Refuted: flushQueue sets remoteDescSet before it empties the queue and  *)
(* awaits each pc.addIceCandidate (92-101), so a candidate that arrives    *)
(* during an await takes the direct path of addIceCandidate (83-87) ahead  *)
(* of the candidates still queued.                                         *)
(***************************************************************************)
C34_ArrivalOrder ==
    \A k \in 1..Len(rtc) :
        \A i, j \in 1..Len(rtc[k].added) :
            i < j => rtc[k].added[i].candidate < rtc[k].added[j].candidate

(***************************************************************************)
(* server/server.ts: the connection handler as it runs.  It is async: it   *)
(* gives the socket its id (line 34) and is suspended at                   *)
(* `await import("./ws/registry")` (line 38); register, the welcome and    *)
(* the close handler (lines 39-55) come when the import has settled.  The  *)
(* message handler of ws/index.ts (lines 49-78) is attached by a listener  *)
(* that ran before, so messages are routed from the start.                 *)
(***************************************************************************)
ConnectionOpens(socketId) ==
    /\ sockets[socketId] = "none" /\ pending[socketId] = "none"
    /\ pending' = [pending EXCEPT ![socketId] = "open"]
    /\ tried' = NoSends
    /\ lastOp' = [NoOp EXCEPT !.op = "connection", !.socketId = socketId]
    /\ UNCHANGED <<regVars, sockets, cacheVars, clientVars, transportVars>>

\* the socket closes while its handler is suspended: its close event has no
\* listener yet (line 43), nothing runs
ClosesSuspended(socketId) ==
    /\ pending[socketId] = "open"
    /\ pending' = [pending EXCEPT ![socketId] = "closed"]
    /\ tried' = NoSends
    /\ lastOp' = [NoOp EXCEPT !.op = "socket-fails", !.socketId = socketId]
    /\ UNCHANGED <<regVars, sockets, cacheVars, clientVars, transportVars>>

\* lines 38-59, the import has settled: register(socketId, ws), ws.send of
\* the welcome, ws.on("close")
ConnectionResumes(socketId) ==
    /\ pending[socketId] # "none"
    /\ sockets' = [register(sockets, socketId) EXCEPT ![socketId] = pending[socketId]]
    /\ pending' = [pending EXCEPT ![socketId] = "none"]
    /\ tried' = SendTo(NoSends, socketId, welcome(socketId))
    /\ lastOp' = [NoOp EXCEPT !.op = "connect", !.socketId = socketId]
    /\ UNCHANGED <<regVars, cacheVars, clientVars, transportVars>>

\* connections open, join and close; the close event of a socket runs the
\* handler that is attached to it at that moment
NextAccept ==
    \/ \E c \in AllConns :
          ConnectionOpens(c) /\ UNCHANGED wireVars
    \/ \E c \in AllConns :
          ClosesSuspended(c) /\ UNCHANGED wireVars
    \/ \E c \in AllConns :
          ConnectionResumes(c) /\ UNCHANGED wireVars
    \/ \E c \in AllConns :
          sockets[c] = "open" /\ OnClose(c) /\ UNCHANGED wireVars
    \/ \E c \in AllConns, sid \in AllSessionIds, role \in Roles :
          HandleJoin(c, sid, role) /\ UNCHANGED wireVars

SpecAccept == InitRouter /\ [][NextAccept]_vars

(***************************************************************************)
(* client/src/ws/socket.ts: the transport client's socket.  connect() runs *)
(* when the module is loaded (line 196) and from the timer of reconnect;   *)
(* every socket it makes closes at most once, and the next is made only    *)
(* after that, so one socket at a time has handlers that can still run.    *)
(***************************************************************************)
maxReconnectAttempts == 5
reconnectDelay == 1000

MaxHistory == 8   \* opens and scheduled reconnects of one behaviour

\* reconnect(), lines 117-128, with one attempt more
reconnect_oneMore(attempts) ==
    IF attempts <= maxReconnectAttempts
    THEN [reconnectAttempts |-> attempts + 1,
          timer |-> reconnectDelay * 2 ^ ((attempts + 1) - 1)]
    ELSE [reconnectAttempts |-> attempts, timer |-> 0]

\* reconnect(), lines 117-128: the counter and the timer it leaves
reconnect(attempts) ==
    IF attempts < maxReconnectAttempts
    THEN [reconnectAttempts |-> attempts + 1,
          timer |-> reconnectDelay * 2 ^ ((attempts + 1) - 1)]
    ELSE [reconnectAttempts |-> attempts, timer |-> 0]

\* socket.onopen, lines 19-22
SocketOpens ==
    /\ socket = "connecting"
    /\ Len(history) < MaxHistory
    /\ socket' = "open"
    /\ reconnectAttempts' = 0
    /\ history' = Append(history, 0)
    /\ UNCHANGED <<serverVars, clientVars, wireVars, pending, timer>>

\* socket.onclose, lines 24-27, of a socket that was open or never opened
SocketCloses ==
    LET r == reconnect(reconnectAttempts)
    IN  /\ socket \in {"connecting", "open"}
        /\ Len(history) < MaxHistory
        /\ socket' = "closed"
        /\ reconnectAttempts' = r.reconnectAttempts
        /\ timer' = r.timer
        /\ history' = IF r.timer # 0 THEN Append(history, r.timer) ELSE history
        /\ UNCHANGED <<serverVars, clientVars, wireVars, pending>>

\* the timer of line 121 fires: connect()
ReconnectTimer ==
    /\ timer # 0
    /\ socket' = "connecting"
    /\ timer' = 0
    /\ UNCHANGED <<serverVars, clientVars, wireVars, pending, reconnectAttempts, history>>

NextTransport ==
    \/ SocketOpens
    \/ SocketCloses
    \/ ReconnectTimer

InitTransport == InitServer({}, {}) /\ InitClient({})

SpecTransport == InitTransport /\ [][NextTransport]_vars

(***************************************************************************)
(* C35: when the receiver has sent an ICE-restart offer and the            *)
(* broadcaster's answer comes back to it, the receiver applies the answer  *)
(* to the entry that sent the offer: the step in which the student's page  *)
(* reads the answer changes that entry or starts a call on it.  Refuted:   *)
(* the page's handler has branches for offers and candidates only, and the *)
(* answer is read and dropped.                                             *)
(***************************************************************************)
C35_AnswerRead ==
    /\ inbox[StudentConn] # << >>
    /\ Head(inbox[StudentConn]).payload.type = "sdp"
    /\ Head(inbox[StudentConn]).payload.body = "answer"
    /\ inbox'[StudentConn] = Tail(inbox[StudentConn])
    /\ pcEntry # 0

\* C35: the step that reads the answer to a restart offer applies it to the
\* entry that sent the offer
C35_RestartAnswered ==
    [][C35_AnswerRead =>
          (/\ rtc[pcEntry].restarts > 0
           /\ rtc'[pcEntry] # rtc[pcEntry] \/ tasks' # tasks)]_vars

(***************************************************************************)
(* C36: a join is routed only for a connection that is registered (and has *)
(* been sent its welcome), and a connection whose socket has closed is     *)
(* neither in the send registry nor bound to a session.  Refuted: the      *)
(* connection handler is suspended at its await before it registers the    *)
(* socket and attaches the close handler; a join that arrives meanwhile is *)
(* routed for an unregistered socket, and a close that arrives meanwhile   *)
(* runs no handler, so the socket is registered afterwards and stays.      *)
(***************************************************************************)
C36_Closed(c) == pending[c] = "closed" \/ sockets[c] = "closed"

\* C36: a join is routed only for a registered connection, and a closed socket
\* is neither registered nor bound
C36_RegisteredFirst ==
    /\ lastOp.op = "join" => sockets[lastOp.socketId] # "none"
    /\ \A c \in AllConns :
          C36_Closed(c) => sockets[c] = "none" /\ socketToSession[c] = NoSession

(***************************************************************************)
(* C37: after a successful join, the joiner has been sent something (a     *)
(* peer-joined event or items of the cache) only if it is a student of the *)
(* session it joined.  Refuted: a join as student by the connection in the *)
(* session's teacher slot leaves the registry as it was, and handleJoin    *)
(* still takes the student branch: it notifies the session's teacher,      *)
(* which is the joiner, and replays the cache to the joiner.               *)
(***************************************************************************)
C37_JoinerSentOnlyAsStudent ==
    JoinDone =>
        (tried[lastOp.socketId] # << >> =>
            lastOp.socketId \in sessions[lastOp.sessionId].students)

(***************************************************************************)
(* C38: a routed message with recipient all and no targetSocketId is       *)
(* passed to sendTo for every member of the sender's session other than    *)
(* the sender, the teacher and the students alike, whatever the sender's   *)
(* role.  Refuted: the router has no branch for recipient all; the message *)
(* falls through to the default rule, and a student's message reaches the  *)
(* teacher only, never the other students.                                 *)
(***************************************************************************)
C38_AllReachesEveryMember ==
    (/\ Routed
     /\ lastOp.payload.targetSocketId = NoField
     /\ lastOp.payload.recipient = "all") =>
        \A c \in OtherMembers(sessions[socketToSession[lastOp.socketId]], lastOp.socketId) :
            tried[c] # << >>

(***************************************************************************)
(* C39: counting the reconnects that were scheduled since the last open    *)
(* (or since the start), there are never more than five, and the k-th of   *)
(* them has the delay 1000 * 2^(k-1) ms; while the socket is open the      *)
(* attempt count is zero; and once the socket made by the fifth of them    *)
(* has closed, no timer is pending and none is set again.                  *)
(***************************************************************************)
\* the position of the last open before position i of the history, 0 for none
C39_LastOpen(i) ==
    LET opens == {j \in 1..i : history[j] = 0}
    IN  IF opens = {} THEN 0 ELSE CHOOSE j \in opens : \A l \in opens : l <= j

\* the fifth reconnect in a row has failed
C39_Exhausted ==
    /\ Len(history) - C39_LastOpen(Len(history)) = 5
    /\ socket = "closed"
    /\ timer = 0

\* C39: at most five reconnects in a row, the k-th after 1000 * 2^(k-1) ms; an
\* open resets the count; after the fifth failure nothing more is scheduled
C39_Backoff ==
    /\ [](\A i \in 1..Len(history) :
            history[i] # 0 =>
                /\ i - C39_LastOpen(i) <= 5
                /\ history[i] = 1000 * 2 ^ (i - C39_LastOpen(i) - 1))
    /\ [](socket = "open" => reconnectAttempts = 0)
    /\ [][C39_Exhausted => (C39_Exhausted' /\ UNCHANGED history)]_vars

\* C39 witness: a reconnect failed, the next one opened, and after that five
\* reconnects in a row have failed, the last of them set for 16000 ms
C39_Witness ==
    /\ C39_Exhausted
    /\ \E i \in 2..Len(history) : history[i] = 0 /\ history[i - 1] # 0
    /\ history[Len(history)] = 16000

====
